---- MODULE Spec2Model ----
(***************************************************************************)
(* A model of slmp-rs: the SLMP session (SLMPClient, src/src/lib.rs) and   *)
(* the fleet scheduler (SLMPConnectionManager, SLMPWorker and the poller   *)
(* task, src/src/manager.rs).                                              *)
(*                                                                         *)
(* Every `.await` of the code that can suspend a task is a step boundary:  *)
(* a lock acquisition, the socket write, the socket read, the user         *)
(* callback, the join of the poller's handle.  Code between two such       *)
(* points runs in one step.  tokio::select! without `biased;` polls its    *)
(* branches from a random start, so when several branches are ready the    *)
(* branch taken is a nondeterministic choice.                              *)
(***************************************************************************)
EXTENDS Integers, Sequences, FiniteSets, TLC

(***************************************************************************)
(* Bounds of the model.                                                    *)
(***************************************************************************)
MaxWorkers == 2         \* workers (successful connects) created in one behaviour
MaxCalls == 3           \* manager / client calls started in one behaviour
MaxTicks == 2           \* interval ticks per poller in the concurrency model
ScheduleTicks == 56     \* interval ticks per poller in the schedule model
MaxTime == 400          \* last instant (ms) of the timed model

\* The longest sequence of bits written in one bulk write.
MaxBits == 6

(***************************************************************************)
(* Program constants.                                                      *)
(***************************************************************************)
MINUMUM_POLLING_PERIOD_MS == 100
LOOP_PERIOD_MS == 5000
LOOP_CNT_INIT == 0
LOOP_CNT_MAX == (LOOP_PERIOD_MS \div MINUMUM_POLLING_PERIOD_MS) - 1
DEFAULT_SEND_TIMEOUT_MS == 1000
DEFAULT_RECV_TIMEOUT_MS == 1000

Callers == {1, 2}                 \* tasks of the application
Endpoints == {"plc1", "plc2"}     \* socket addresses
Workers == 1..MaxWorkers          \* SLMPWorker instances, in creation order
Sessions == 0..MaxWorkers         \* SLMPClient instances: 0 is a client the
                                  \* application built itself with
                                  \* SLMPClient::new, w > 0 is worker w's

PollingInterval == {"Fast", "Meduim", "Slow", "Watch"}

MonitorDevice(i, d) == [inverval |-> i, device |-> d]

\* Target lists handed to register_monitor_targets.
TargetsMixed ==
    << MonitorDevice("Meduim", "D2"), MonitorDevice("Fast", "D1"),
       MonitorDevice("Fast", "D3") >>
TargetsSlow == << MonitorDevice("Watch", "D4"), MonitorDevice("Slow", "D5") >>
TargetsAll ==
    << MonitorDevice("Fast", "D1"), MonitorDevice("Meduim", "D2"),
       MonitorDevice("Slow", "D3"), MonitorDevice("Watch", "D4") >>
TargetLists == {TargetsMixed, TargetsSlow}

\* The commands of SLMPClient that the model distinguishes.
ClientFns == {"run_cpu", "echo", "random_read"}

\* DataType; n is the device size of a String and 0 for the other types.
DataType(tag, n) == [tag |-> tag, n |-> n]
Bool == DataType("Bool", 0)
BitArray16 == DataType("BitArray16", 0)
U16 == DataType("U16", 0)
I16 == DataType("I16", 0)
U32 == DataType("U32", 0)
I32 == DataType("I32", 0)
F32 == DataType("F32", 0)
F64 == DataType("F64", 0)
String(n) == DataType("String", n)

\* DataType::device_size
device_size(dt) ==
    CASE dt.tag = "Bool" -> [size |-> "Bit", n |-> 0]
      [] dt.tag \in {"BitArray16", "U16", "I16"} -> [size |-> "SingleWord", n |-> 0]
      [] dt.tag \in {"U32", "I32", "F32"} -> [size |-> "DoubleWord", n |-> 0]
      [] dt.tag = "F64" -> [size |-> "MultiWord", n |-> 4]
      [] dt.tag = "String" -> [size |-> "MultiWord", n |-> dt.n]

\* DataType::byte_size
byte_size(dt) ==
    CASE dt.tag = "Bool" -> 1
      [] dt.tag \in {"BitArray16", "U16", "I16"} -> 2
      [] dt.tag \in {"U32", "I32", "F32"} -> 4
      [] dt.tag = "F64" -> 8
      [] dt.tag = "String" -> dt.n * 2

\* The write commands and the data slices (the types of their items) given
\* to them.
WriteFns == {"bulk_write", "random_write"}
WriteData == {<<>>, <<Bool>>, <<U16>>, <<U16, Bool>>, <<F64, U32, Bool>>}

\* How write_all under the send timeout ends.
WriteKinds == {"sent", "timeout", "io_error"}

\* What the read under the receive timeout yields: a frame that passes
\* validation and decoding, nothing in time, a frame or an I/O result that
\* is refused with an error, a frame that passes the length checks and is
\* too short for the indexing that follows.
ReplyKinds == {"ok", "timeout", "invalid", "malformed"}

\* Owners of a tokio Mutex.
Free == <<"free", 0>>
Caller(c) == <<"caller", c>>
Poller(w) == <<"poller", w>>

VARIABLES
    connections,      \* SLMPConnectionManager.connections: endpoint -> worker
    mapLock,          \* owner of the mutex around connections
    workers,          \* the workers created so far
    wEndpoint,        \* worker -> socket_addr captured by its poller
    cancel_token,     \* worker -> cancel_token is cancelled
    monitor_handle,   \* worker -> "none" | "some" | "taken"
    sender_targets,   \* worker -> the Option<UnboundedSender> is Some
    chan,             \* worker -> messages queued in the target channel
    monitor_target,   \* worker -> MonitorDevices {fast, medium, slow, watch}
    cnt,              \* worker -> the poller's loop counter
    ppc,              \* worker -> where its poller task is
    request_devices,  \* worker -> request of the tick in progress
    clientLock,       \* session -> owner of the Mutex<SLMPClient>
    stream,           \* session -> "none" | "open" (Option<TcpStream>)
    streamLock,       \* session -> owner of the mutex around the stream
    wire,             \* session -> requests written to its stream so far
    pc,               \* caller -> where the task is in its call
    op,               \* caller -> the call in progress
    ret,              \* caller -> result of its last call
    calls,            \* calls started so far
    lastTick,         \* worker -> the last completed tick {req, res, cb}
    closedRet,        \* workers for which disconnect has returned Ok(true)
    ticks,            \* worker -> ticks taken by its poller
    tickLimit,        \* ticks a poller may take in this behaviour
    age,              \* worker -> bucket -> ticks since it was last requested
    gap,              \* worker -> bucket -> ticks between its last two requests
    timed,            \* time is modelled in this behaviour
    now,              \* current instant (ms)
    nextTick,         \* worker -> instant at which its interval fires next
    xStart,           \* worker -> instant at which its socket operation began
    cancelAt,         \* worker -> instant of cancel_token.cancel()
    termAt,           \* worker -> instant at which the poller task ended
    fx                \* the function last evaluated: its name, input, output

mgrVars == <<connections, mapLock, workers, wEndpoint, cancel_token,
             monitor_handle, sender_targets, chan>>
pollVars == <<monitor_target, cnt, ppc, request_devices, lastTick, ticks,
              age, gap, nextTick, xStart, termAt>>
sessVars == <<clientLock, stream, streamLock, wire>>
callVars == <<pc, op, ret, calls>>
envVars == <<closedRet, tickLimit, timed, now, cancelAt, fx>>
vars == <<mgrVars, pollVars, sessVars, callVars, envVars>>

(***************************************************************************)
(* Helpers.                                                                *)
(***************************************************************************)
Never == 0 - 1

Terminated == {"done", "dead"}

\* MonitorDevices::new
NewMonitorDevices == [fast |-> <<>>, medium |-> <<>>, slow |-> <<>>, watch |-> <<>>]

\* targets.iter().filter(|x| x.inverval == i).map(|x| x.device).collect()
Bucket(targets, i) ==
    LET sel == SelectSeq(targets, LAMBDA x : x.inverval = i)
    IN  [k \in 1..Len(sel) |-> sel[k].device]

NoOp ==
    [kind |-> "none", ep |-> "-", targets |-> <<>>, sess |-> 0, fn |-> "-",
     locked |-> FALSE, todo |-> {}, drained |-> {}, data |-> <<>>, more |-> 0]

\* No function evaluated yet.
NoCall == [fn |-> "-", in |-> <<>>, out |-> <<>>]

NoTick == [req |-> <<>>, res |-> "-", cb |-> 0, cbres |-> "-"]

Fresh == [b \in PollingInterval |-> Never]

InitWith(limit, isTimed) ==
    /\ connections = <<>>
    /\ mapLock = Free
    /\ workers = {}
    /\ wEndpoint = [w \in Workers |-> "-"]
    /\ cancel_token = [w \in Workers |-> FALSE]
    /\ monitor_handle = [w \in Workers |-> "none"]
    /\ sender_targets = [w \in Workers |-> FALSE]
    /\ chan = [w \in Workers |-> <<>>]
    /\ monitor_target = [w \in Workers |-> NewMonitorDevices]
    /\ cnt = [w \in Workers |-> LOOP_CNT_INIT]
    /\ ppc = [w \in Workers |-> "none"]
    /\ request_devices = [w \in Workers |-> <<>>]
    /\ clientLock = [s \in Sessions |-> Free]
    /\ stream = [s \in Sessions |-> "none"]
    /\ streamLock = [s \in Sessions |-> Free]
    /\ wire = [s \in Sessions |-> 0]
    /\ pc = [c \in Callers |-> "idle"]
    /\ op = [c \in Callers |-> NoOp]
    /\ ret = [c \in Callers |-> "-"]
    /\ calls = 0
    /\ lastTick = [w \in Workers |-> NoTick]
    /\ closedRet = {}
    /\ ticks = [w \in Workers |-> 0]
    /\ tickLimit = limit
    /\ age = [w \in Workers |-> Fresh]
    /\ gap = [w \in Workers |-> Fresh]
    /\ timed = isTimed
    /\ now = 0
    /\ nextTick = [w \in Workers |-> 0]
    /\ xStart = [w \in Workers |-> 0]
    /\ cancelAt = [w \in Workers |-> Never]
    /\ termAt = [w \in Workers |-> Never]
    /\ fx = NoCall

Init == InitWith(MaxTicks, FALSE)

(***************************************************************************)
(* The session: SLMPClient::request_response.                              *)
(***************************************************************************)
\* stream.lock().await returns only when nobody owns the mutex.
\* Variant: request_response without the stream mutex.
StreamAlwaysFree(s) == TRUE

StreamFree(s) == streamLock[s] = Free

\* client.lock().await on the Mutex<SLMPClient> of a worker.
ClientFree(s) == clientLock[s] = Free

\* Variant: the guard is dropped between the write and the read.
ReleasedWhileReading(p) == Free

\* The guard taken at the top of request_response lives until the function
\* returns: the mutex has the same owner while the reply is awaited.
OwnerWhileReading(p) == p

\* validate_response and the caller's decoding, applied to what the server
\* did.  A frame of 13 or 14 bytes whose DataLen matches passes the length
\* checks and data[13] is then out of bounds; a payload shorter than the
\* request implies makes MonitorList::parse slice out of bounds: the task
\* panics.
Outcome(reply) ==
    CASE reply = "ok" -> "Ok"
      [] reply = "timeout" -> "TimedOut"
      [] reply = "invalid" -> "InvalidData"
      [] reply = "malformed" -> "Panic"

\* Result of a failed write_all.
WriteError(kind) == IF kind = "timeout" THEN "TimedOut" ELSE "IoError"

IsErr(r) ==
    r \in {"NotConnected", "TimedOut", "IoError", "InvalidData", "NetworkDown"}

\* What the command fn returns when its exchange ended with r: echo maps
\* every error of the exchange to NetworkDown, the others pass it on.
CommandResult(fn, r) ==
    IF fn = "echo" /\ IsErr(r) THEN "NetworkDown" ELSE r

(***************************************************************************)
(* The poller task spawned by SLMPConnectionManager::connect.              *)
(***************************************************************************)
\* The buckets a tick with counter c selects.
Selected(c) ==
    {"Fast"}
    \cup (IF c % 5 = 0 THEN {"Meduim"} ELSE {})
    \cup (IF c % 10 = 0 THEN {"Slow"} ELSE {})
    \cup (IF c = LOOP_CNT_MAX THEN {"Watch"} ELSE {})

BucketOf(mt, b) ==
    CASE b = "Fast" -> mt.fast
      [] b = "Meduim" -> mt.medium
      [] b = "Slow" -> mt.slow
      [] b = "Watch" -> mt.watch

\* request_devices of a tick: the selected buckets, in the order
\* fast, medium, slow, watch.
RequestDevices(mt, c) ==
    mt.fast
    \o (IF "Meduim" \in Selected(c) THEN mt.medium ELSE <<>>)
    \o (IF "Slow" \in Selected(c) THEN mt.slow ELSE <<>>)
    \o (IF "Watch" \in Selected(c) THEN mt.watch ELSE <<>>)

\* Variant: a counter that wraps to LOOP_CNT_INIT.
WrapToInit(c) == IF c = LOOP_CNT_MAX THEN LOOP_CNT_INIT ELSE c + 1

\* cnt = if cnt == LOOP_CNT_MAX { 1 } else { cnt + 1 }
NextCnt(c) == IF c = LOOP_CNT_MAX THEN 1 ELSE c + 1

\* Variant: the callback is invoked whatever the read returned.
InvokesCallbackAlways(res) == TRUE

\* if let Ok(values) = ret { cyclic_task(data).await }
InvokesCallback(res) == res = "Ok"

\* Variant: a poller that does not watch its token.
CancelIgnored(w) == FALSE

\* The three branches of the select!.
CancelReady(w) == cancel_token[w]
RecvReady(w) == chan[w] # <<>>
TickReady(w) == ticks[w] < tickLimit /\ (timed => now >= nextTick[w])

\* Bookkeeping of a tick that starts with counter c on buckets mt.
Requested(mt, c, b) == b \in Selected(c) /\ BucketOf(mt, b) # <<>>

AgeAfterTick(w) ==
    [b \in PollingInterval |->
        IF Requested(monitor_target[w], cnt[w], b) THEN 0
        ELSE IF age[w][b] = Never THEN Never ELSE age[w][b] + 1]

GapAfterTick(w) ==
    [b \in PollingInterval |->
        IF Requested(monitor_target[w], cnt[w], b) /\ age[w][b] # Never
        THEN age[w][b] + 1 ELSE gap[w][b]]

\* The tick of worker w ends with read result res, cb callback invocations
\* and callback result cbres; the counter moves on and the loop goes back
\* to the select!.
EndTick(w, req, res, cb, cbres) ==
    /\ lastTick' = [lastTick EXCEPT ![w] =
                      [req |-> req, res |-> res, cb |-> cb, cbres |-> cbres]]
    /\ cnt' = [cnt EXCEPT ![w] = NextCnt(cnt[w])]
    /\ ppc' = [ppc EXCEPT ![w] = "select"]
    /\ request_devices' = [request_devices EXCEPT ![w] = <<>>]
    /\ UNCHANGED termAt

\* The task of worker w ends (how: "done" by break, "dead" by a panic).
EndTask(w, how) ==
    /\ ppc' = [ppc EXCEPT ![w] = how]
    /\ termAt' = [termAt EXCEPT ![w] = now]
    /\ request_devices' = [request_devices EXCEPT ![w] = <<>>]
    /\ lastTick' = IF how = "dead"
                   THEN [lastTick EXCEPT ![w] =
                           [req |-> request_devices[w], res |-> "Panic",
                            cb |-> 0, cbres |-> "-"]]
                   ELSE lastTick
    /\ UNCHANGED cnt

\* _ = cancel_token.cancelled() => break
PollerCancel(w) ==
    /\ ppc[w] = "select"
    /\ CancelReady(w)
    /\ EndTask(w, "done")
    /\ UNCHANGED <<mgrVars, sessVars, callVars, envVars, monitor_target,
                   ticks, age, gap, nextTick, xStart>>

\* Some(targets) = receiver_targets.recv() => replace the four buckets
PollerRecv(w) ==
    /\ ppc[w] = "select"
    /\ RecvReady(w)
    /\ monitor_target' = [monitor_target EXCEPT ![w] =
          [fast |-> Bucket(Head(chan[w]), "Fast"),
           medium |-> Bucket(Head(chan[w]), "Meduim"),
           slow |-> Bucket(Head(chan[w]), "Slow"),
           watch |-> Bucket(Head(chan[w]), "Watch")]]
    /\ chan' = [chan EXCEPT ![w] = Tail(chan[w])]
    /\ age' = [age EXCEPT ![w] = Fresh]
    /\ gap' = [gap EXCEPT ![w] = Fresh]
    /\ UNCHANGED <<connections, mapLock, workers, wEndpoint, cancel_token,
                   monitor_handle, sender_targets, sessVars, callVars, envVars,
                   cnt, ppc, request_devices, lastTick, ticks, nextTick,
                   xStart, termAt>>

\* _ = interval.tick() => compose the request; an empty request ends the
\* tick at once, otherwise the task goes on to client.lock().await.
PollerTick(w) ==
    /\ ppc[w] = "select"
    /\ TickReady(w)
    /\ ticks' = [ticks EXCEPT ![w] = ticks[w] + 1]
    /\ nextTick' = [nextTick EXCEPT ![w] =
                      IF timed THEN nextTick[w] + MINUMUM_POLLING_PERIOD_MS
                      ELSE nextTick[w]]
    /\ age' = [age EXCEPT ![w] = AgeAfterTick(w)]
    /\ gap' = [gap EXCEPT ![w] = GapAfterTick(w)]
    /\ LET req == RequestDevices(monitor_target[w], cnt[w])
       IN  IF Len(req) # 0
           THEN /\ request_devices' = [request_devices EXCEPT ![w] = req]
                /\ ppc' = [ppc EXCEPT ![w] = "lock_client"]
                /\ UNCHANGED <<lastTick, cnt, termAt>>
           ELSE EndTick(w, req, "-", 0, "-")
    /\ UNCHANGED <<mgrVars, sessVars, callVars, envVars, monitor_target, xStart>>

\* let mut client = client.lock().await; random_read builds the frame and
\* request_response goes on to stream.lock().await.
PollerLockClient(w) ==
    /\ ppc[w] = "lock_client"
    /\ ClientFree(w)
    /\ clientLock' = [clientLock EXCEPT ![w] = Poller(w)]
    /\ ppc' = [ppc EXCEPT ![w] = "lock_stream"]
    /\ UNCHANGED <<mgrVars, callVars, envVars, stream, streamLock, wire,
                   monitor_target, cnt, request_devices, lastTick, ticks, age,
                   gap, nextTick, xStart, termAt>>

\* request_response: the stream mutex is taken; with no stream the exchange
\* fails with NotConnected, the error is dropped and the tick ends.
PollerLockStream(w) ==
    /\ ppc[w] = "lock_stream"
    /\ StreamFree(w)
    /\ IF stream[w] = "none"
       THEN /\ clientLock' = [clientLock EXCEPT ![w] = Free]
            /\ EndTick(w, request_devices[w], "NotConnected", 0, "-")
            /\ UNCHANGED <<streamLock, xStart>>
       ELSE /\ streamLock' = [streamLock EXCEPT ![w] = Poller(w)]
            /\ ppc' = [ppc EXCEPT ![w] = "write"]
            /\ xStart' = [xStart EXCEPT ![w] = now]
            /\ UNCHANGED <<clientLock, lastTick, cnt, request_devices, termAt>>
    /\ UNCHANGED <<mgrVars, callVars, envVars, stream, wire, monitor_target,
                   ticks, age, gap, nextTick>>

\* timeout(send_timeout, stream.write_all(msg))
PollerWrite(w) ==
    /\ ppc[w] = "write"
    /\ \E kind \in WriteKinds :
          IF kind = "sent"
          THEN /\ wire' = [wire EXCEPT ![w] = wire[w] + 1]
               /\ streamLock' = [streamLock EXCEPT ![w] = OwnerWhileReading(Poller(w))]
               /\ ppc' = [ppc EXCEPT ![w] = "read"]
               /\ xStart' = [xStart EXCEPT ![w] = now]
               /\ UNCHANGED <<clientLock, lastTick, cnt, request_devices, termAt>>
          ELSE /\ (timed /\ kind = "timeout") =>
                      now - xStart[w] >= DEFAULT_SEND_TIMEOUT_MS
               /\ streamLock' = [streamLock EXCEPT ![w] = Free]
               /\ clientLock' = [clientLock EXCEPT ![w] = Free]
               /\ EndTick(w, request_devices[w], WriteError(kind), 0, "-")
               /\ UNCHANGED <<wire, xStart>>
    /\ UNCHANGED <<mgrVars, callVars, envVars, stream, monitor_target, ticks,
                   age, gap, nextTick>>

\* timeout(recv_timeout, stream.read(buffer)), validate_response, parse; on
\* Ok the callback is invoked, on Err the error is dropped.
PollerRead(w) ==
    /\ ppc[w] = "read"
    /\ \E reply \in ReplyKinds :
          LET res == Outcome(reply) IN
          /\ (timed /\ reply = "timeout") =>
                 now - xStart[w] >= DEFAULT_RECV_TIMEOUT_MS
          /\ streamLock' = [streamLock EXCEPT ![w] =
                              IF streamLock[w] = Poller(w) THEN Free ELSE streamLock[w]]
          /\ clientLock' = [clientLock EXCEPT ![w] = Free]
          /\ IF res = "Panic"
             THEN EndTask(w, "dead")
             ELSE IF InvokesCallback(res)
             THEN /\ ppc' = [ppc EXCEPT ![w] = "callback"]
                  /\ lastTick' = [lastTick EXCEPT ![w] =
                        [req |-> request_devices[w], res |-> res, cb |-> 1,
                         cbres |-> "pending"]]
                  /\ UNCHANGED <<cnt, request_devices, termAt>>
             ELSE EndTick(w, request_devices[w], res, 0, "-")
    /\ UNCHANGED <<mgrVars, callVars, envVars, stream, wire, monitor_target,
                   ticks, age, gap, nextTick, xStart>>

\* let _ = cyclic_task(data).await: the callback's result is discarded.
PollerCallbackReturn(w) ==
    /\ ppc[w] = "callback"
    /\ \E cbres \in {"Ok", "Err"} :
          EndTick(w, lastTick[w].req, lastTick[w].res, lastTick[w].cb, cbres)
    /\ UNCHANGED <<mgrVars, sessVars, callVars, envVars, monitor_target, ticks,
                   age, gap, nextTick, xStart>>

PollerStep(w) ==
    \/ PollerCancel(w)
    \/ PollerRecv(w)
    \/ PollerTick(w)
    \/ PollerLockClient(w)
    \/ PollerLockStream(w)
    \/ PollerWrite(w)
    \/ PollerRead(w)
    \/ PollerCallbackReturn(w)

(***************************************************************************)
(* Calls of the application tasks.                                         *)
(***************************************************************************)
Range(f) == {f[x] : x \in DOMAIN f}

Remove(f, e) == [x \in DOMAIN f \ {e} |-> f[x]]

CanCall(c) == pc[c] = "idle" /\ calls < MaxCalls

Begin(c, where, what) ==
    /\ pc' = [pc EXCEPT ![c] = where]
    /\ op' = [op EXCEPT ![c] = what]
    /\ ret' = [ret EXCEPT ![c] = "-"]
    /\ calls' = calls + 1

Finish(c, r) ==
    /\ pc' = [pc EXCEPT ![c] = "idle"]
    /\ op' = [op EXCEPT ![c] = NoOp]
    /\ ret' = [ret EXCEPT ![c] = r]
    /\ UNCHANGED calls

\* The calls that may still create a worker.
Connecting ==
    {c \in Callers : op[c].kind = "connect" /\ pc[c] # "insert_lock"}

NewWorker ==
    CHOOSE w \in Workers \ workers : \A v \in Workers \ workers : w <= v

\* handle.await returns once the poller task has ended, by return or panic.
\* Variant: close without the await of the handle.
HandleNotAwaited(w) == TRUE

PollerFinished(w) == ppc[w] \in Terminated

\* SLMPWorker::close, up to the await of the handle: the token is cancelled
\* and the handle taken out of monitor_handle.
StartClose(w) ==
    /\ cancel_token' = [cancel_token EXCEPT ![w] = TRUE]
    /\ cancelAt' = [cancelAt EXCEPT ![w] = IF cancelAt[w] = Never THEN now ELSE cancelAt[w]]
    /\ monitor_handle' = [monitor_handle EXCEPT ![w] = "taken"]

\* SLMPConnectionManager::connect is called.
CallConnect(c, e) ==
    /\ CanCall(c)
    /\ Cardinality(workers) + Cardinality(Connecting) < MaxWorkers
    /\ Begin(c, "disc_lock", [NoOp EXCEPT !.kind = "connect", !.ep = e])
    /\ UNCHANGED <<mgrVars, pollVars, sessVars, envVars>>

\* SLMPConnectionManager::disconnect is called.
CallDisconnect(c, e) ==
    /\ CanCall(c)
    /\ Begin(c, "disc_lock", [NoOp EXCEPT !.kind = "disconnect", !.ep = e])
    /\ UNCHANGED <<mgrVars, pollVars, sessVars, envVars>>

\* disconnect (also the one at the top of connect): the map mutex is taken;
\* an occupied entry starts the close of its worker with the mutex held.
DisconnectLock(c) ==
    /\ pc[c] = "disc_lock"
    /\ mapLock = Free
    /\ IF op[c].ep \in DOMAIN connections
       THEN /\ StartClose(connections[op[c].ep])
            /\ mapLock' = Caller(c)
            /\ pc' = [pc EXCEPT ![c] = "close_join"]
            /\ op' = [op EXCEPT ![c].sess = connections[op[c].ep]]
            /\ UNCHANGED <<ret, calls>>
       ELSE /\ UNCHANGED <<cancel_token, cancelAt, monitor_handle, mapLock>>
            /\ IF op[c].kind = "connect"
               THEN /\ pc' = [pc EXCEPT ![c] = "dial"]
                    /\ UNCHANGED <<op, ret, calls>>
               ELSE Finish(c, "OkFalse")
    /\ UNCHANGED <<connections, workers, wEndpoint, sender_targets, chan,
                   pollVars, sessVars, closedRet, tickLimit, timed, now, fx>>

\* close: handle.await
CloseJoin(c) ==
    /\ pc[c] = "close_join"
    /\ PollerFinished(op[c].sess)
    /\ pc' = [pc EXCEPT ![c] = "close_client"]
    /\ UNCHANGED <<mgrVars, pollVars, sessVars, envVars, op, ret, calls>>

\* close: self.client.lock().await
CloseLockClient(c) ==
    /\ pc[c] = "close_client"
    /\ ClientFree(op[c].sess)
    /\ clientLock' = [clientLock EXCEPT ![op[c].sess] = Caller(c)]
    /\ pc' = [pc EXCEPT ![c] = "close_stream"]
    /\ UNCHANGED <<mgrVars, pollVars, envVars, stream, streamLock, wire, op,
                   ret, calls>>

\* close: client.close() takes the stream mutex and shuts the stream down,
\* the sender is dropped; then the caller of close goes on: disconnect
\* removes the entry and returns, connect removes it, sleeps and dials,
\* clear closes the next drained worker or returns.
CloseStream(c) ==
    LET w == op[c].sess
        k == op[c].kind
    IN
    /\ pc[c] = "close_stream"
    /\ StreamFree(w)
    /\ stream' = [stream EXCEPT ![w] = "none"]
    /\ clientLock' = [clientLock EXCEPT ![w] = Free]
    /\ sender_targets' = [sender_targets EXCEPT ![w] = FALSE]
    /\ CASE k = "clear" /\ op[c].todo # {} ->
              \E n \in op[c].todo :
                 /\ StartClose(n)
                 /\ op' = [op EXCEPT ![c].sess = n, ![c].todo = op[c].todo \ {n}]
                 /\ pc' = [pc EXCEPT ![c] = "close_join"]
                 /\ UNCHANGED <<connections, mapLock, closedRet, ret, calls>>
         [] k = "clear" /\ op[c].todo = {} ->
              /\ mapLock' = Free
              /\ Finish(c, "Ok")
              /\ UNCHANGED <<connections, closedRet, cancel_token, cancelAt,
                             monitor_handle>>
         [] k = "disconnect" ->
              /\ connections' = Remove(connections, op[c].ep)
              /\ mapLock' = Free
              /\ closedRet' = closedRet \cup {w}
              /\ Finish(c, "OkTrue")
              /\ UNCHANGED <<cancel_token, cancelAt, monitor_handle>>
         [] k = "connect" ->
              /\ connections' = Remove(connections, op[c].ep)
              /\ mapLock' = Free
              /\ pc' = [pc EXCEPT ![c] = "dial"]
              /\ UNCHANGED <<closedRet, cancel_token, cancelAt, monitor_handle,
                             op, ret, calls>>
    /\ UNCHANGED <<workers, wEndpoint, chan, pollVars, streamLock, wire,
                   tickLimit, timed, now, fx>>

\* connect, after the sleep of 100 ms: SLMPClient::new and client.connect();
\* an error is returned to the caller, otherwise the worker is built and its
\* poller spawned, and the task goes on to self.connections.lock().await.
ConnectDial(c) ==
    /\ pc[c] = "dial"
    /\ \E opened \in BOOLEAN :
          IF opened
          THEN LET w == NewWorker IN
               /\ workers' = workers \cup {w}
               /\ wEndpoint' = [wEndpoint EXCEPT ![w] = op[c].ep]
               /\ stream' = [stream EXCEPT ![w] = "open"]
               /\ monitor_handle' = [monitor_handle EXCEPT ![w] = "some"]
               /\ sender_targets' = [sender_targets EXCEPT ![w] = TRUE]
               /\ ppc' = [ppc EXCEPT ![w] = "select"]
               /\ nextTick' = [nextTick EXCEPT ![w] = now]
               /\ op' = [op EXCEPT ![c].sess = w]
               /\ pc' = [pc EXCEPT ![c] = "insert_lock"]
               /\ UNCHANGED <<ret, calls>>
          ELSE /\ Finish(c, "ConnectFailed")
               /\ UNCHANGED <<workers, wEndpoint, stream, monitor_handle,
                              sender_targets, ppc, nextTick>>
    /\ UNCHANGED <<connections, mapLock, cancel_token, chan, monitor_target,
                   cnt, request_devices, lastTick, ticks, age, gap, xStart,
                   termAt, clientLock, streamLock, wire, envVars>>

\* connect: map.insert(socket_addr, Arc::new(worker)); Ok(())
ConnectInsert(c) ==
    /\ pc[c] = "insert_lock"
    /\ mapLock = Free
    /\ connections' = (op[c].ep :> op[c].sess) @@ connections
    /\ Finish(c, "Ok")
    /\ UNCHANGED <<mapLock, workers, wEndpoint, cancel_token, monitor_handle,
                   sender_targets, chan, pollVars, sessVars, envVars>>

\* SLMPConnectionManager::clear is called.
CallClear(c) ==
    /\ CanCall(c)
    /\ Begin(c, "clear_lock", [NoOp EXCEPT !.kind = "clear"])
    /\ UNCHANGED <<mgrVars, pollVars, sessVars, envVars>>

\* clear: the map mutex is taken and the map drained; the workers are closed
\* one after the other, in the map's iteration order, with the mutex held.
ClearLock(c) ==
    /\ pc[c] = "clear_lock"
    /\ mapLock = Free
    /\ connections' = <<>>
    /\ IF DOMAIN connections = {}
       THEN /\ Finish(c, "Ok")
            /\ UNCHANGED <<mapLock, cancel_token, cancelAt, monitor_handle>>
       ELSE \E n \in Range(connections) :
               /\ StartClose(n)
               /\ mapLock' = Caller(c)
               /\ op' = [op EXCEPT ![c].sess = n,
                                   ![c].todo = Range(connections) \ {n},
                                   ![c].drained = Range(connections)]
               /\ pc' = [pc EXCEPT ![c] = "close_join"]
               /\ UNCHANGED <<ret, calls>>
    /\ UNCHANGED <<workers, wEndpoint, sender_targets, chan, pollVars,
                   sessVars, closedRet, tickLimit, timed, now, fx>>

\* SLMPConnectionManager::register_monitor_targets is called.
CallRegister(c, e, targets) ==
    /\ CanCall(c)
    /\ Begin(c, "reg_lock", [NoOp EXCEPT !.kind = "register", !.ep = e,
                                         !.targets = targets])
    /\ UNCHANGED <<mgrVars, pollVars, sessVars, envVars>>

\* UnboundedSender::send: the message is queued whatever the queue holds;
\* it is refused (and the error ignored) once the receiver is gone.
Send(w, targets) ==
    IF ppc[w] \in Terminated THEN chan[w] ELSE Append(chan[w], targets)

\* register_monitor_targets: with the map mutex held, the worker is looked
\* up, its sender_targets locked and the list sent.
RegisterLock(c) ==
    /\ pc[c] = "reg_lock"
    /\ mapLock = Free
    /\ IF op[c].ep \in DOMAIN connections
       THEN LET w == connections[op[c].ep] IN
            /\ chan' = [chan EXCEPT ![w] =
                          IF sender_targets[w] THEN Send(w, op[c].targets)
                          ELSE chan[w]]
            /\ Finish(c, "Ok")
       ELSE /\ Finish(c, "AddrNotAvailable")
            /\ UNCHANGED chan
    /\ UNCHANGED <<connections, mapLock, workers, wEndpoint, cancel_token,
                   monitor_handle, sender_targets, pollVars, sessVars, envVars>>

\* SLMPConnectionManager::operate_worker is called with a closure that runs
\* command fn on the worker's client: under the client's mutex (locked), or
\* on a clone of the client taken under it.
CallOperate(c, e, fn, locked) ==
    /\ CanCall(c)
    /\ Begin(c, "op_lock", [NoOp EXCEPT !.kind = "operate", !.ep = e,
                                        !.fn = fn, !.locked = locked])
    /\ UNCHANGED <<mgrVars, pollVars, sessVars, envVars>>

\* operate_worker: the worker is looked up under the map mutex, which is
\* released before the closure runs.
OperateLock(c) ==
    /\ pc[c] = "op_lock"
    /\ mapLock = Free
    /\ IF op[c].ep \in DOMAIN connections
       THEN /\ op' = [op EXCEPT ![c].sess = connections[op[c].ep]]
            /\ pc' = [pc EXCEPT ![c] = "x_client"]
            /\ UNCHANGED <<ret, calls>>
       ELSE Finish(c, "AddrNotAvailable")
    /\ UNCHANGED <<mgrVars, pollVars, sessVars, envVars>>

\* The closure: client.lock().await
ClosureLockClient(c) ==
    /\ pc[c] = "x_client"
    /\ ClientFree(op[c].sess)
    /\ clientLock' = [clientLock EXCEPT ![op[c].sess] =
                        IF op[c].locked THEN Caller(c) ELSE Free]
    /\ pc' = [pc EXCEPT ![c] = "x_wait"]
    /\ UNCHANGED <<mgrVars, pollVars, envVars, stream, streamLock, wire, op,
                   ret, calls>>

\* The client mutex is given back when the closure's guard is dropped.
ReleaseClient(c) ==
    [clientLock EXCEPT ![op[c].sess] =
        IF clientLock[op[c].sess] = Caller(c) THEN Free ELSE clientLock[op[c].sess]]

\* iter().filter(p).count()
Count(seq, P(_)) == Cardinality({i \in 1..Len(seq) : P(seq[i])})

\* fold(0, |a, b| a + f(b))
Sum(seq, F(_)) ==
    Cardinality(UNION {{<<i, k>> : k \in 1..F(seq[i])} : i \in 1..Len(seq)})

\* x as u8
U8(x) == x % 256

\* Variant: a write command that always sends one packet.
OnePacketAlways(fn, data) == 1

\* The exchanges bulk_write and random_write perform for a data slice:
\* bulk_write one if the slice is not empty; random_write one for the word
\* items if there are any and one for the bit items if there are any.
Exchanges(fn, data) ==
    IF fn = "bulk_write"
    THEN IF Len(data) > 0 THEN 1 ELSE 0
    ELSE LET multi == Sum(data, LAMBDA t :
                         IF device_size(t).size = "MultiWord"
                         THEN device_size(t).n ELSE 0)
             single_word_access_points ==
                 U8(U8(Count(data, LAMBDA t : device_size(t).size = "SingleWord"))
                    + multi)
             double_word_access_points ==
                 U8(Count(data, LAMBDA t : device_size(t).size = "DoubleWord"))
             bit_access_points ==
                 U8(Count(data, LAMBDA t : device_size(t).size = "Bit"))
         IN  (IF U8(single_word_access_points + double_word_access_points) > 0
              THEN 1 ELSE 0)
             + (IF bit_access_points > 0 THEN 1 ELSE 0)

\* bulk_write or random_write is called on the application's client.
CallWrite(c, fn, data) ==
    /\ CanCall(c)
    /\ Begin(c, "w_plan", [NoOp EXCEPT !.kind = "command", !.fn = fn,
                                       !.data = data])
    /\ UNCHANGED <<mgrVars, pollVars, sessVars, envVars>>

\* The command sorts and counts its data and goes on to its first exchange,
\* or returns Ok(()) when it has none to perform.
WritePlan(c) ==
    /\ pc[c] = "w_plan"
    /\ IF Exchanges(op[c].fn, op[c].data) = 0
       THEN Finish(c, "Ok")
       ELSE /\ pc' = [pc EXCEPT ![c] = "x_wait"]
            /\ op' = [op EXCEPT ![c].more = Exchanges(op[c].fn, op[c].data) - 1]
            /\ UNCHANGED <<ret, calls>>
    /\ UNCHANGED <<mgrVars, pollVars, sessVars, envVars>>

\* request_response of a command called by a task: the stream mutex is
\* taken; with no stream the exchange fails with NotConnected.
XLockStream(c) ==
    /\ pc[c] = "x_wait"
    /\ StreamFree(op[c].sess)
    /\ IF stream[op[c].sess] = "none"
       THEN /\ clientLock' = ReleaseClient(c)
            /\ Finish(c, CommandResult(op[c].fn, "NotConnected"))
            /\ UNCHANGED streamLock
       ELSE /\ streamLock' = [streamLock EXCEPT ![op[c].sess] = Caller(c)]
            /\ pc' = [pc EXCEPT ![c] = "x_write"]
            /\ UNCHANGED <<clientLock, op, ret, calls>>
    /\ UNCHANGED <<mgrVars, pollVars, envVars, stream, wire>>

\* timeout(send_timeout, stream.write_all(msg))
XWrite(c) ==
    /\ pc[c] = "x_write"
    /\ \E kind \in WriteKinds :
          IF kind = "sent"
          THEN /\ wire' = [wire EXCEPT ![op[c].sess] = wire[op[c].sess] + 1]
               /\ streamLock' = [streamLock EXCEPT ![op[c].sess] =
                                   OwnerWhileReading(Caller(c))]
               /\ pc' = [pc EXCEPT ![c] = "x_read"]
               /\ UNCHANGED <<clientLock, op, ret, calls>>
          ELSE /\ streamLock' = [streamLock EXCEPT ![op[c].sess] = Free]
               /\ clientLock' = ReleaseClient(c)
               /\ Finish(c, CommandResult(op[c].fn, WriteError(kind)))
               /\ UNCHANGED wire
    /\ UNCHANGED <<mgrVars, pollVars, envVars, stream>>

\* timeout(recv_timeout, stream.read(buffer)), validate_response, decoding;
\* random_write goes on to its second exchange after a first that succeeded.
XRead(c) ==
    /\ pc[c] = "x_read"
    /\ \E reply \in ReplyKinds :
          /\ streamLock' = [streamLock EXCEPT ![op[c].sess] =
                IF streamLock[op[c].sess] = Caller(c) THEN Free
                ELSE streamLock[op[c].sess]]
          /\ IF Outcome(reply) = "Ok" /\ op[c].more > 0
             THEN /\ pc' = [pc EXCEPT ![c] = "x_wait"]
                  /\ op' = [op EXCEPT ![c].more = op[c].more - 1]
                  /\ UNCHANGED <<clientLock, ret, calls>>
             ELSE /\ clientLock' = ReleaseClient(c)
                  /\ Finish(c, CommandResult(op[c].fn, Outcome(reply)))
    /\ UNCHANGED <<mgrVars, pollVars, envVars, stream, wire>>

(***************************************************************************)
(* Calls made directly on a client of the application (session 0) and its  *)
(* clones, one clone per task.                                             *)
(***************************************************************************)
\* A command of SLMPClient is called.
CallCommand(c, fn) ==
    /\ CanCall(c)
    /\ Begin(c, "x_wait", [NoOp EXCEPT !.kind = "command", !.fn = fn])
    /\ UNCHANGED <<mgrVars, pollVars, sessVars, envVars>>

\* SLMPClient::close: lock.take() and shutdown under the stream mutex.
ClientClose(c) ==
    /\ CanCall(c)
    /\ StreamFree(0)
    /\ stream' = [stream EXCEPT ![0] = "none"]
    /\ pc' = pc
    /\ op' = op
    /\ ret' = [ret EXCEPT ![c] = "Unit"]
    /\ calls' = calls + 1
    /\ UNCHANGED <<mgrVars, pollVars, envVars, clientLock, streamLock, wire>>

\* SLMPClient::connect is called; it starts with self.close().await.
CallClientConnect(c) ==
    /\ CanCall(c)
    /\ Begin(c, "k_close", [NoOp EXCEPT !.kind = "client_connect"])
    /\ UNCHANGED <<mgrVars, pollVars, sessVars, envVars>>

ClientConnectClose(c) ==
    /\ pc[c] = "k_close"
    /\ StreamFree(0)
    /\ stream' = [stream EXCEPT ![0] = "none"]
    /\ pc' = [pc EXCEPT ![c] = "k_dial"]
    /\ UNCHANGED <<mgrVars, pollVars, envVars, clientLock, streamLock, wire,
                   op, ret, calls>>

\* connect: resolve and TcpStream::connect under CONNECT_TIMEOUT
ClientConnectDial(c) ==
    /\ pc[c] = "k_dial"
    /\ \E opened \in BOOLEAN :
          IF opened
          THEN /\ pc' = [pc EXCEPT ![c] = "k_set"]
               /\ UNCHANGED <<op, ret, calls>>
          ELSE Finish(c, "ConnectFailed")
    /\ UNCHANGED <<mgrVars, pollVars, sessVars, envVars>>

\* connect: *lock = Some(stream)
ClientConnectSet(c) ==
    /\ pc[c] = "k_set"
    /\ StreamFree(0)
    /\ stream' = [stream EXCEPT ![0] = "open"]
    /\ Finish(c, "Ok")
    /\ UNCHANGED <<mgrVars, pollVars, envVars, clientLock, streamLock, wire>>

(***************************************************************************)
(* The passage of time (timed behaviours only).  Time passes only while no *)
(* poller can take a step at once: a ready select! branch and a free mutex *)
(* are taken without delay, a socket operation ends by its timeout.        *)
(***************************************************************************)
CanWait(w) ==
    CASE ppc[w] = "select" -> ~ (CancelReady(w) \/ RecvReady(w) \/ TickReady(w))
      [] ppc[w] = "lock_client" -> ~ ClientFree(w)
      [] ppc[w] = "lock_stream" -> ~ StreamFree(w)
      [] ppc[w] = "write" -> now - xStart[w] < DEFAULT_SEND_TIMEOUT_MS
      [] ppc[w] = "read" -> now - xStart[w] < DEFAULT_RECV_TIMEOUT_MS
      [] OTHER -> TRUE

Advance ==
    /\ timed
    /\ now < MaxTime
    /\ \A w \in Workers : CanWait(w)
    /\ now' = now + MINUMUM_POLLING_PERIOD_MS
    /\ UNCHANGED <<mgrVars, pollVars, sessVars, callVars, closedRet, tickLimit, fx,
                   timed, cancelAt>>

(***************************************************************************)
(* Specifications.                                                         *)
(***************************************************************************)
\* The fleet scheduler under concurrent callers.
Next ==
    \/ \E c \in Callers, e \in Endpoints : CallConnect(c, e)
    \/ \E c \in Callers, e \in Endpoints : CallDisconnect(c, e)
    \/ \E c \in Callers : CallClear(c)
    \/ \E c \in Callers, e \in Endpoints, t \in TargetLists : CallRegister(c, e, t)
    \/ \E c \in Callers, e \in Endpoints, fn \in ClientFns, l \in BOOLEAN :
          CallOperate(c, e, fn, l)
    \/ \E c \in Callers : DisconnectLock(c)
    \/ \E c \in Callers : CloseJoin(c)
    \/ \E c \in Callers : CloseLockClient(c)
    \/ \E c \in Callers : CloseStream(c)
    \/ \E c \in Callers : ConnectDial(c)
    \/ \E c \in Callers : ConnectInsert(c)
    \/ \E c \in Callers : ClearLock(c)
    \/ \E c \in Callers : RegisterLock(c)
    \/ \E c \in Callers : OperateLock(c)
    \/ \E c \in Callers : ClosureLockClient(c)
    \/ \E c \in Callers : XLockStream(c)
    \/ \E c \in Callers : XWrite(c)
    \/ \E c \in Callers : XRead(c)
    \/ \E w \in Workers : PollerStep(w)

Spec == Init /\ [][Next]_vars

\* The same, with the fairness the runtime gives: a task that can go on
\* does go on (a free tokio Mutex is handed to a waiter, every socket
\* operation ends by its timeout, the callback returns) and a poller at its
\* select! with the token cancelled or a message queued takes a branch.
\* Nothing is assumed about the timer or about the calls the application
\* makes.
CallerStep(c) ==
    \/ DisconnectLock(c)
    \/ CloseJoin(c)
    \/ CloseLockClient(c)
    \/ CloseStream(c)
    \/ ConnectDial(c)
    \/ ConnectInsert(c)
    \/ ClearLock(c)
    \/ RegisterLock(c)
    \/ OperateLock(c)
    \/ ClosureLockClient(c)
    \/ XLockStream(c)
    \/ XWrite(c)
    \/ XRead(c)

PollerProgress(w) ==
    \/ PollerCancel(w)
    \/ PollerRecv(w)
    \/ PollerLockClient(w)
    \/ PollerLockStream(w)
    \/ PollerWrite(w)
    \/ PollerRead(w)
    \/ PollerCallbackReturn(w)

Fairness ==
    /\ \A c \in Callers : WF_vars(CallerStep(c))
    /\ \A w \in Workers : WF_vars(PollerProgress(w))

FairSpec == Init /\ [][Next]_vars /\ Fairness

\* The task that sets the fleet up.
Main == CHOOSE c \in Callers : \A d \in Callers : c <= d

(***************************************************************************)
(* Re-entrant use: the callback of a tick, and a closure of operate_worker *)
(* that holds the client's mutex, call register_monitor_targets of the     *)
(* same manager.                                                           *)
(***************************************************************************)
\* register_monitor_targets once the map mutex is held: the list is sent
\* to the worker stored for the endpoint, if there is one.
Registered(e, targets) ==
    IF e \in DOMAIN connections
    THEN [chan EXCEPT ![connections[e]] =
             IF sender_targets[connections[e]]
             THEN Send(connections[e], targets) ELSE chan[connections[e]]]
    ELSE chan

\* cyclic_task(data).await: the callback calls register_monitor_targets for
\* its own endpoint and goes on to self.connections.lock().await.
CallbackRegister(w) ==
    /\ ppc[w] = "callback"
    /\ ppc' = [ppc EXCEPT ![w] = "cb_map_lock"]
    /\ UNCHANGED <<mgrVars, sessVars, callVars, envVars, monitor_target, cnt,
                   request_devices, lastTick, ticks, age, gap, nextTick,
                   xStart, termAt>>

\* The callback gets the map mutex, sends the list and returns; the tick
\* ends.
CallbackRegisterLock(w) ==
    /\ ppc[w] = "cb_map_lock"
    /\ mapLock = Free
    /\ chan' = Registered(wEndpoint[w], TargetsSlow)
    /\ EndTick(w, lastTick[w].req, lastTick[w].res, lastTick[w].cb, "Ok")
    /\ UNCHANGED <<connections, mapLock, workers, wEndpoint, cancel_token,
                   monitor_handle, sender_targets, sessVars, callVars, envVars,
                   monitor_target, ticks, age, gap, nextTick, xStart>>

\* operate_worker is called with a closure that locks the client and, with
\* the guard held, calls register_monitor_targets.
CallOperateReentrant(c, e) ==
    /\ CanCall(c)
    /\ Begin(c, "r_lock", [NoOp EXCEPT !.kind = "operate", !.ep = e,
                                       !.fn = "register_monitor_targets",
                                       !.locked = TRUE])
    /\ UNCHANGED <<mgrVars, pollVars, sessVars, envVars>>

\* operate_worker: the worker is looked up under the map mutex, which is
\* released before the closure runs.
ReentrantOperateLock(c) ==
    /\ pc[c] = "r_lock"
    /\ mapLock = Free
    /\ IF op[c].ep \in DOMAIN connections
       THEN /\ op' = [op EXCEPT ![c].sess = connections[op[c].ep]]
            /\ pc' = [pc EXCEPT ![c] = "r_client"]
            /\ UNCHANGED <<ret, calls>>
       ELSE Finish(c, "AddrNotAvailable")
    /\ UNCHANGED <<mgrVars, pollVars, sessVars, envVars>>

\* The closure: client.lock().await, then on to register_monitor_targets
\* and its self.connections.lock().await.
ReentrantClosureLockClient(c) ==
    /\ pc[c] = "r_client"
    /\ ClientFree(op[c].sess)
    /\ clientLock' = [clientLock EXCEPT ![op[c].sess] = Caller(c)]
    /\ pc' = [pc EXCEPT ![c] = "r_map_lock"]
    /\ UNCHANGED <<mgrVars, pollVars, envVars, stream, streamLock, wire, op,
                   ret, calls>>

\* The closure gets the map mutex, sends the list, drops its guard and
\* returns.
ReentrantClosureRegister(c) ==
    /\ pc[c] = "r_map_lock"
    /\ mapLock = Free
    /\ chan' = Registered(op[c].ep, TargetsSlow)
    /\ clientLock' = ReleaseClient(c)
    /\ Finish(c, "Ok")
    /\ UNCHANGED <<connections, mapLock, workers, wEndpoint, cancel_token,
                   monitor_handle, sender_targets, pollVars, stream,
                   streamLock, wire, envVars>>

\* One endpoint, connected and registered to by the main task, then
\* disconnected or cleared by any task while callbacks and closures call
\* the manager.
NextReentrant ==
    \/ \E e \in Endpoints : workers = {} /\ CallConnect(Main, e)
    \/ \E e \in Endpoints : CallRegister(Main, e, TargetsMixed)
    \/ \E c \in Callers, e \in Endpoints : CallDisconnect(c, e)
    \/ \E c \in Callers : CallClear(c)
    \/ \E c \in Callers, e \in Endpoints : CallOperateReentrant(c, e)
    \/ \E c \in Callers : DisconnectLock(c)
    \/ \E c \in Callers : CloseJoin(c)
    \/ \E c \in Callers : CloseLockClient(c)
    \/ \E c \in Callers : CloseStream(c)
    \/ \E c \in Callers : ConnectDial(c)
    \/ \E c \in Callers : ConnectInsert(c)
    \/ \E c \in Callers : ClearLock(c)
    \/ \E c \in Callers : RegisterLock(c)
    \/ \E c \in Callers : ReentrantOperateLock(c)
    \/ \E c \in Callers : ReentrantClosureLockClient(c)
    \/ \E c \in Callers : ReentrantClosureRegister(c)
    \/ \E w \in Workers : PollerStep(w)
    \/ \E w \in Workers : CallbackRegister(w)
    \/ \E w \in Workers : CallbackRegisterLock(w)

\* The fairness of the runtime, as in FairSpec: a task or a poller that can
\* go on does go on.
ReentrantFairness ==
    /\ \A c \in Callers :
          WF_vars(CallerStep(c) \/ ReentrantOperateLock(c)
                  \/ ReentrantClosureLockClient(c) \/ ReentrantClosureRegister(c))
    /\ \A w \in Workers : WF_vars(PollerProgress(w) \/ CallbackRegisterLock(w))

ReentrantSpec == Init /\ [][NextReentrant]_vars /\ ReentrantFairness

\* One client of the application and its clones, used by concurrent tasks.
NextSession ==
    \/ \E c \in Callers, fn \in ClientFns : CallCommand(c, fn)
    \/ \E c \in Callers, fn \in WriteFns, d \in WriteData : CallWrite(c, fn, d)
    \/ \E c \in Callers : WritePlan(c)
    \/ \E c \in Callers : ClientClose(c)
    \/ \E c \in Callers : CallClientConnect(c)
    \/ \E c \in Callers : ClientConnectClose(c)
    \/ \E c \in Callers : ClientConnectDial(c)
    \/ \E c \in Callers : ClientConnectSet(c)
    \/ \E c \in Callers : XLockStream(c)
    \/ \E c \in Callers : XWrite(c)
    \/ \E c \in Callers : XRead(c)

SessionSpec == Init /\ [][NextSession]_vars

\* One poller over many ticks: the main task connects one endpoint,
\* registers, once, targets of all four intervals, and disconnects.
NextSchedule ==
    \/ \E e \in Endpoints : workers = {} /\ CallConnect(Main, e)
    \/ \E e \in Endpoints :
          /\ \A w \in Workers :
                chan[w] = <<>> /\ monitor_target[w] = NewMonitorDevices
          /\ CallRegister(Main, e, TargetsAll)
    \/ \E e \in Endpoints : CallDisconnect(Main, e)
    \/ \E c \in Callers : DisconnectLock(c)
    \/ \E c \in Callers : CloseJoin(c)
    \/ \E c \in Callers : CloseLockClient(c)
    \/ \E c \in Callers : CloseStream(c)
    \/ \E c \in Callers : ConnectDial(c)
    \/ \E c \in Callers : ConnectInsert(c)
    \/ \E c \in Callers : RegisterLock(c)
    \/ \E w \in Workers : PollerStep(w)

InitSchedule == InitWith(ScheduleTicks, FALSE)

ScheduleSpec == InitSchedule /\ [][NextSchedule]_vars

\* One worker connected, registered to and disconnected, with time modelled.
NextTimed ==
    \/ \E e \in Endpoints : workers = {} /\ CallConnect(Main, e)
    \/ \E e \in Endpoints : CallDisconnect(Main, e)
    \/ \E e \in Endpoints, t \in TargetLists : CallRegister(Main, e, t)
    \/ \E c \in Callers : DisconnectLock(c)
    \/ \E c \in Callers : CloseJoin(c)
    \/ \E c \in Callers : CloseLockClient(c)
    \/ \E c \in Callers : CloseStream(c)
    \/ \E c \in Callers : ConnectDial(c)
    \/ \E c \in Callers : ConnectInsert(c)
    \/ \E c \in Callers : RegisterLock(c)
    \/ \E w \in Workers : PollerStep(w)
    \/ Advance

InitTimed == InitWith(ScheduleTicks, TRUE)

TimedSpec == InitTimed /\ [][NextTimed]_vars

(***************************************************************************)
(* The functions of the codec, evaluated on inputs drawn from bounded      *)
(* sets.                                                                   *)
(***************************************************************************)
\* A function is applied, once, to an input; nothing else moves.
Eval(fn, in, out) ==
    /\ fx.fn = NoCall.fn
    /\ fx' = [fn |-> fn, in |-> in, out |-> out]
    /\ UNCHANGED <<mgrVars, pollVars, sessVars, callVars, closedRet, tickLimit,
                   timed, now, cancelAt>>

\* data[i] of a slice, indexed from 0 as in the source.
At(data, i) == data[i + 1]

\* u16::to_le_bytes and u16::from_le_bytes
ToLe16(v) == << v % 256, (v \div 256) % 256 >>
FromLe16(lo, hi) == lo + 256 * hi

\* n bytes of payload
Zeros(n) == [i \in 1..n |-> 0]

\* The ConnectionProps of the session.
Props == [serial_id |-> 513, network_id |-> 0, pc_id |-> 255, io_id |-> 1023,
          area_id |-> 0, cpu_timer |-> 4]

\* A response frame as the server lays it out: subheader, serial, blank,
\* access route, data length, end code, payload.
ResponseFrame(f) ==
    ToLe16(f.code) \o ToLe16(f.serial) \o << f.blank, f.blank >>
      \o << f.network, f.pc >> \o ToLe16(f.io) \o << f.area >>
      \o ToLe16(f.data_len) \o ToLe16(f.end_code) \o Zeros(f.payload)

\* An end code validate_response names.
WrongCommand == 49241

\* Response fields the server may send: each as the session expects it or
\* different.
ResponseFields ==
    [code : {212, 84}, serial : {Props.serial_id, 7}, blank : {0, 1},
     network : {Props.network_id, 9}, pc : {Props.pc_id, 3},
     io : {Props.io_id, 5}, area : {Props.area_id, 2},
     data_len : {2, 4, 0, 1}, end_code : {0, WrongCommand, WrongCommand + 1},
     payload : {0, 2}]

\* Buffers handed to validate_response: whole frames, and frames cut short
\* after 0, 12, 13 and 14 bytes.
CutLens == {0, 12, 13, 14}
Buffers ==
    {ResponseFrame(f) : f \in ResponseFields}
    \cup {SubSeq(ResponseFrame(f), 1, n) :
            f \in {g \in ResponseFields : g.payload = 0 /\ g.code = 212
                                          /\ g.blank = 0 /\ g.area = 0},
            n \in CutLens}

\* The message for an end code.
EndCodeError(error) ==
    IF error = WrongCommand THEN "SLMP Returns Error: WrongCommand"
    ELSE "SLMP Returns Error: Unknown Error"

\* SLMPClient::validate_response.  data[13] and data[14] are read once the
\* two length checks have passed: on a buffer of 13 or 14 bytes the index
\* is out of bounds and the task panics.
validate_response(data) ==
    LET data_len == Len(data) IN
    IF data_len < 13 THEN "Received Invalid Length Data"
    ELSE IF FromLe16(At(data, 11), At(data, 12)) # data_len - 13
    THEN "Received Invalid Data Frame"
    ELSE IF data_len < 15 THEN "Panic"
    ELSE IF FromLe16(At(data, 13), At(data, 14)) # 0
    THEN EndCodeError(FromLe16(At(data, 13), At(data, 14)))
    ELSE IF << At(data, 0), At(data, 1) >> # << 212, 0 >>
    THEN "Received Invalid Response Data"
    ELSE IF << At(data, 2), At(data, 3) >> # ToLe16(Props.serial_id)
    THEN "Received Invalid Serial ID"
    ELSE IF << At(data, 4), At(data, 5) >> # << 0, 0 >>
    THEN "Received Invalid Blank Code"
    ELSE IF At(data, 6) # Props.network_id THEN "Received Invalid Network ID"
    ELSE IF At(data, 7) # Props.pc_id THEN "Received Invalid PC ID"
    ELSE IF << At(data, 8), At(data, 9) >> # ToLe16(Props.io_id)
    THEN "Received Invalid IO ID"
    ELSE IF At(data, 10) # Props.area_id THEN "Received Invalid Area ID"
    ELSE "Ok"

(***************************************************************************)
(* Device lists, MonitorList and the read-request builders.                *)
(***************************************************************************)
\* The build profiles: integer overflow panics in a debug build and wraps
\* in a release build.
Builds == {"debug", "release"}

\* TypedDevice over data registers.
TypedDevice(address, dt) ==
    [device |-> [device_type |-> "D", address |-> address], data_type |-> dt]

\* DataType's derived Ord: the discriminant, then the word size of a String.
TypeKey(dt) ==
    (CASE dt.tag = "Bool" -> 1
       [] dt.tag = "BitArray16" -> 2
       [] dt.tag = "U16" -> 3
       [] dt.tag = "I16" -> 4
       [] dt.tag = "F64" -> 5
       [] dt.tag = "String" -> 6
       [] dt.tag = "U32" -> 7
       [] dt.tag = "I32" -> 8
       [] dt.tag = "F32" -> 9) * 256 + dt.n

\* slice::sort_by_key, a stable sort: an item's place is the number of items
\* with a smaller key, or with the same key and before it, plus one.
SortByKey(seq, Key(_)) ==
    LET n == Len(seq)
        keys == SubSeq([i \in 1..n |-> Key(seq[i])], 1, n)
        place == {<<Cardinality({j \in 1..n :
                       \/ keys[j] < keys[i]
                       \/ keys[j] = keys[i] /\ j < i}) + 1, i>> : i \in 1..n}
    IN  SubSeq([p \in 1..n |-> seq[CHOOSE i \in 1..n : <<p, i>> \in place]], 1, n)

\* The u8 additions of MonitorList::from that overflow: the fold over the
\* MultiWord sizes and the sum of the two single-word counts.
MonitorListOverflows(value) ==
    LET for_multi == Sum(value, LAMBDA d : device_size(d.data_type).n)
        single == U8(Count(value, LAMBDA d :
                         device_size(d.data_type).size \in {"Bit", "SingleWord"}))
    IN  for_multi > 255 \/ single + for_multi > 255

\* MonitorList::from(&[TypedDevice]), with the counters as the u8 fields
\* hold them (an overflowing addition wraps unless the build panics on it).
MonitorListFrom(value) ==
    LET indexed == [i \in 1..Len(value) |-> [index |-> i - 1, item |-> value[i]]]
        by_address == SortByKey(indexed, LAMBDA p : p.item.device.address)
        sorted_devices == SortByKey(by_address, LAMBDA p : TypeKey(p.item.data_type))
        multi == Count(value, LAMBDA d : device_size(d.data_type).size = "MultiWord")
        for_multi == Sum(value, LAMBDA d : device_size(d.data_type).n)
        single == U8(Count(value, LAMBDA d :
                         device_size(d.data_type).size \in {"Bit", "SingleWord"}))
    IN  [sorted_devices |-> sorted_devices,
         single_word_access_points |-> U8(single + U8(for_multi)),
         double_word_access_points |->
             U8(Count(value, LAMBDA d : device_size(d.data_type).size = "DoubleWord")),
         multi_word_access_points |-> U8(multi),
         single_word_access_points_for_multi_word_communication |-> U8(for_multi)]

\* Concatenation of a sequence of sequences.
Flatten(seqs) ==
    LET n == Len(seqs)
        lens == SubSeq([i \in 1..n |-> Len(seqs[i])], 1, n)
        before == SubSeq([i \in 1..n |-> Sum(SubSeq(lens, 1, i - 1), LAMBDA l : l)], 1, n)
        placed == UNION {{<<before[i] + k, seqs[i][k]>> : k \in 1..lens[i]} : i \in 1..n}
        total == Sum(lens, LAMBDA l : l)
    IN  SubSeq([p \in 1..total |-> (CHOOSE e \in placed : e[1] = p)[2]], 1, total)

\* A call that panicked before any packet was built.
Panicked == [result |-> "Panic", counts |-> <<>>, addresses |-> <<>>]

\* The data packet of read/random.rs::construct_frame: the two count bytes
\* and the addresses serialised after them.
RandomReadPacket(ml, build) ==
    IF build = "debug"
       /\ ml.single_word_access_points + ml.double_word_access_points > 255
    THEN Panicked
    ELSE [result |-> "Sent",
          counts |-> <<ml.single_word_access_points, ml.double_word_access_points>>,
          addresses |-> Flatten([i \in 1..Len(ml.sorted_devices) |->
              LET d == ml.sorted_devices[i].item
              IN  IF device_size(d.data_type).size = "MultiWord"
                  THEN [k \in 1..device_size(d.data_type).n |-> d.device.address + k - 1]
                  ELSE <<d.device.address>>])]

\* SLMPClient::random_read up to the request it hands to the stream: the
\* list is converted and the frame built, with no check in between.
random_read(devices, build) ==
    IF build = "debug" /\ MonitorListOverflows(devices)
    THEN Panicked
    ELSE RandomReadPacket(MonitorListFrom(devices), build)

\* n items of one type at consecutive addresses from start.
Run(start, n, dt) == [i \in 1..n |-> TypedDevice(start + (i - 1) * 8, dt)]

\* The device lists read in one request: short mixed lists, lists at the
\* limit of 192 access points and lists beyond it.
DeviceLists ==
    { <<TypedDevice(10, dt1), TypedDevice(a2, dt2)>> :
          dt1 \in {Bool, U16, F64, String(2), U32},
          dt2 \in {Bool, U16, String(3), F32}, a2 \in {0, 10, 20} }
    \cup { <<TypedDevice(40, U32), TypedDevice(30, F64), TypedDevice(0, U16),
             TypedDevice(20, String(2)), TypedDevice(50, Bool)>> }
    \cup { Run(0, n, U16) : n \in {192, 193, 256, 257} }
    \cup { Run(0, 96, U16) \o Run(2000, 96, U32),
           Run(0, 100, U16) \o Run(2000, 93, U32),
           Run(0, 200, U16) \o Run(2000, 100, U32),
           <<TypedDevice(0, String(96)), TypedDevice(200, String(96))>>,
           <<TypedDevice(0, String(200))>>,
           <<TypedDevice(0, String(200)), TypedDevice(400, String(100))>>,
           Run(0, 100, Bool) \o <<TypedDevice(1000, String(200))>> }

EvalRandomRead ==
    \E devices \in DeviceLists, build \in Builds :
        Eval("random_read", [devices |-> devices, build |-> build],
             random_read(devices, build))

\* The data packet of read/monitor.rs::construct_frame: the two count bytes
\* and one address for each item of the list.
MonitorRegisterPacket(ml, build) ==
    IF build = "debug"
       /\ ml.single_word_access_points + ml.double_word_access_points > 255
    THEN Panicked
    ELSE [result |-> "Sent",
          counts |-> <<ml.single_word_access_points, ml.double_word_access_points>>,
          addresses |-> [i \in 1..Len(ml.sorted_devices) |->
                            ml.sorted_devices[i].item.device.address]]

\* SLMPClient::monitor_register up to the request it hands to the stream.
monitor_register(devices, build) ==
    IF build = "debug" /\ MonitorListOverflows(devices)
    THEN Panicked
    ELSE MonitorRegisterPacket(MonitorListFrom(devices), build)

EvalMonitorRegister ==
    \E devices \in DeviceLists, build \in Builds :
        Eval("monitor_register", [devices |-> devices, build |-> build],
             monitor_register(devices, build))

(***************************************************************************)
(* Request frames with a 4E header.                                        *)
(***************************************************************************)
\* enum CPU; L is encoded as Q.
CPUs == {"Q", "L", "R"}

\* Device::addr_code_len
addr_code_len(cpu) == IF cpu = "R" THEN 6 ELSE 4

\* Device::serialize for a data register (device code 0xa8).
serialize(device, cpu) ==
    LET address == <<device.address % 256, (device.address \div 256) % 256,
                     (device.address \div 65536) % 256>>
    IN  IF cpu = "R" THEN address \o <<0, 168, 0>> ELSE address \o <<168>>

\* SLMP4EConnectionProps::generate_header
generate_header(props, command_len) ==
    <<84, 0>> \o ToLe16(props.serial_id) \o <<0, 0, props.network_id, props.pc_id>>
    \o ToLe16(props.io_id) \o <<props.area_id>> \o ToLe16(command_len % 65536)
    \o ToLe16(props.cpu_timer)

\* construct_frame of the random-read builder that writes the header
\* itself: the lengths are computed in u8.
RandomReadFrame(query, build) ==
    LET device_addr_bytelen == addr_code_len(query.cpu)
        total_access_points ==
            query.single_word_access_points + query.double_word_access_points
        data_packet_len == 2 + U8(U8(total_access_points) * device_addr_bytelen)
        data_packet ==
            <<query.single_word_access_points, query.double_word_access_points>>
            \o Flatten([i \in 1..Len(query.sorted_devices) |->
                           serialize(query.sorted_devices[i].device, query.cpu)])
        command_len == 6 + data_packet_len
    IN  IF build = "debug"
           /\ (\/ total_access_points > 255
               \/ total_access_points * device_addr_bytelen > 255)
        THEN [result |-> "Panic", frame |-> <<>>]
        ELSE [result |-> "Built",
              frame |-> generate_header(Props, command_len)
                        \o <<3, 4>> \o (IF query.cpu = "R" THEN <<2, 0>> ELSE <<0, 0>>)
                        \o data_packet]

\* The queries of the random-read builder: sorted single-word and
\* double-word items with their counts, up to 192 access points.
RandomReadQueries ==
    { [cpu |-> cpu,
       sorted_devices |-> Run(0, sw, U16) \o Run(4000, dw, U32),
       single_word_access_points |-> sw,
       double_word_access_points |-> dw] :
          cpu \in CPUs, sw \in {0, 1, 2, 42, 43, 63, 64, 96, 192}, dw \in {0, 1, 96} }

EvalRandomReadFrame ==
    \E query \in {q \in RandomReadQueries :
                     q.single_word_access_points + q.double_word_access_points <= 192},
       build \in Builds :
        Eval("random_read_frame", [query |-> query, build |-> build],
             RandomReadFrame(query, build))

\* The bytes a response carries for a request list: one 2-byte slot for
\* each bit or single-word item, 2n bytes for each MultiWord(n) item and
\* 4 bytes for each double-word item.  Byte p holds p modulo 251.
ResponsePayload(words, dwords) == [p \in 1..2 * words + 4 * dwords |-> (p - 1) % 251]

\* MonitorList::parse; the values are kept as the bytes handed to
\* TypedData::from.  "Panic" where a slice or an index is out of range.
parse(ml, data) ==
    LET single_word_data_byte == ml.single_word_access_points * 2
        multi_word_data_byte ==
            ml.single_word_access_points_for_multi_word_communication * 2
        cut == single_word_data_byte - multi_word_data_byte
        singles == cut \div 2
        multis == ml.multi_word_access_points
        doubles == (Len(data) - single_word_data_byte) \div 4
        sorted == ml.sorted_devices
        MultiStart(k) ==
            Sum(SubSeq(sorted, singles + 1, singles + k - 1),
                LAMBDA p : byte_size(p.item.data_type))
        Slice(i) ==
            IF i <= singles THEN SubSeq(data, 2 * i - 1, 2 * i)
            ELSE IF i <= singles + multis
            THEN SubSeq(data, cut + MultiStart(i - singles) + 1,
                        cut + MultiStart(i - singles + 1))
            ELSE LET j == i - singles - multis
                 IN  SubSeq(data, single_word_data_byte + 4 * j - 3,
                            single_word_data_byte + 4 * j)
        results == [i \in 1..singles + multis + doubles |->
                   [index |-> sorted[i].index,
                    device |-> sorted[i].item.device,
                    data_type |-> sorted[i].item.data_type,
                    bytes |-> Slice(i)]]
    IN  IF \/ cut < 0
           \/ single_word_data_byte > Len(data)
           \/ singles + multis + doubles > Len(sorted)
           \/ MultiStart(multis + 1) > multi_word_data_byte
        THEN [result |-> "Panic", values |-> <<>>]
        ELSE [result |-> "Ok",
              values |-> LET by_index == SortByKey(results, LAMBDA x : x.index)
                         IN  [i \in 1..Len(by_index) |->
                                 [device |-> by_index[i].device,
                                  data_type |-> by_index[i].data_type,
                                  bytes |-> by_index[i].bytes]]]

\* A random read answered with the payload for the points the list asks
\* for: MonitorList::from, then parse.
EvalParse ==
    \E devices \in DeviceLists, build \in Builds :
        Eval("parse", [devices |-> devices, build |-> build],
             IF build = "debug" /\ MonitorListOverflows(devices)
             THEN [result |-> "Panic", values |-> <<>>]
             ELSE parse(MonitorListFrom(devices),
                        ResponsePayload(
                            Count(devices, LAMBDA d :
                                device_size(d.data_type).size \in {"Bit", "SingleWord"})
                            + Sum(devices, LAMBDA d : device_size(d.data_type).n),
                            Count(devices, LAMBDA d :
                                device_size(d.data_type).size = "DoubleWord"))))

(***************************************************************************)
(* TypedData and PLCString.                                                *)
(***************************************************************************)
\* u8_to_bits and bits_to_u8: bit i of the byte is element i of the array.
u8_to_bits(n) == [i \in 1..8 |-> (n \div 2 ^ (i - 1)) % 2 = 1]
bits_to_u8(bits) == Sum(<<1, 2, 3, 4, 5, 6, 7, 8>>, LAMBDA i : IF bits[i] THEN 2 ^ (i - 1) ELSE 0)

\* u16_to_bits: the bits of the low byte, then those of the high byte.
u16_to_bits(n) == [i \in 1..16 |-> IF i <= 8 THEN u8_to_bits(n % 256)[i]
                                   ELSE u8_to_bits(n \div 256)[i - 8]]

\* bits_to_u16: u16::from_be_bytes([low_byte, high_byte]).
bits_to_u16(bits) ==
    LET low_byte == bits_to_u8([i \in 1..8 |-> bits[i]])
        high_byte == bits_to_u8([i \in 1..8 |-> bits[i + 8]])
    IN  low_byte * 256 + high_byte

\* The n bytes of an integer in memory on a little-endian target, in two's
\* complement, and the integer n little-endian bytes stand for.
LeBytes(v, n) == [i \in 1..n |-> (v \div 256 ^ (i - 1)) % 256]
FromLeBytes(bytes, signed) ==
    LET Byte(i) == IF i > Len(bytes) THEN 0
                   ELSE IF signed /\ i = Len(bytes) /\ bytes[i] >= 128 THEN bytes[i] - 256
                   ELSE bytes[i]
    IN  Byte(1) + 256 * Byte(2) + 65536 * Byte(3) + 16777216 * Byte(4)

PLCSTRING_MAX_BYTES == 64
PLCSTRING_MAX_DEVICE_SIZE == PLCSTRING_MAX_BYTES \div 2

\* PLCString::from_shift_jis_bytes; the copy into the 64-byte array panics
\* when effective_len is beyond it.
from_shift_jis_bytes(bytes, size) ==
    LET nuls == {i \in 1..Len(bytes) : bytes[i] = 0}
        nul_pos == IF nuls = {} THEN Len(bytes)
                   ELSE (CHOOSE i \in nuls : \A j \in nuls : i <= j) - 1
        effective_len == IF nul_pos < size * 2 THEN nul_pos ELSE size * 2
    IN  [panic |-> effective_len > PLCSTRING_MAX_BYTES,
         data |-> [i \in 1..PLCSTRING_MAX_BYTES |->
                      IF i <= effective_len THEN bytes[i] ELSE 0],
         effective_len |-> U8(effective_len),
         device_size |-> IF size < PLCSTRING_MAX_DEVICE_SIZE
                         THEN size ELSE PLCSTRING_MAX_DEVICE_SIZE]

\* PLCString::as_bytes and the bytes as_str decodes.
as_bytes(s) == SubSeq(s.data, 1, s.device_size * 2)
as_str(s) == SubSeq(s.data, 1, s.effective_len)

\* TypedData values: floats stand as their IEEE-754 bit patterns, an F64 as
\* the two 32-bit halves of its pattern.
TypedData(tag, value) == [tag |-> tag, value |-> value]
TypedValues ==
    {TypedData("Bool", b) : b \in BOOLEAN}
    \cup {TypedData("BitArray16", u16_to_bits(n)) : n \in {0, 1, 5, 256, 32769}}
    \cup {TypedData("U16", n) : n \in {0, 1, 255, 256, 4660, 65535}}
    \cup {TypedData("I16", n) : n \in {-32768, -2, -1, 0, 1, 255, 32767}}
    \cup {TypedData("U32", n) : n \in {0, 1, 65536, 305419896, 2147483647}}
    \cup {TypedData("I32", n) : n \in {-2147483647, -65537, -1, 0, 1, 305419896}}
    \cup {TypedData("F32", n) : n \in {0, 1065353216, 1078530011}}
    \cup {TypedData("F64", [hi |-> h, lo |-> l]) :
              h \in {0, 1072693248, 1074340347}, l \in {0, 1413754136}}
    \cup {TypedData("String", from_shift_jis_bytes(bytes, n)) :
              bytes \in {<<>>, <<65>>, <<65, 66, 67, 68>>, <<130, 160, 66>>},
              n \in {1, 2, 3, PLCSTRING_MAX_DEVICE_SIZE}}

\* TypedData::get_type
get_type(v) ==
    IF v.tag = "String" THEN String(v.value.device_size) ELSE DataType(v.tag, 0)

\* What the two bytes read through a pointer that is not the address of an
\* object may be: a fault, or whatever the memory at that address holds.
WildReads ==
    {[fault |-> TRUE, bytes |-> <<>>]}
    \cup {[fault |-> FALSE, bytes |-> <<a, b>>] : a, b \in {0, 1, 5, 128}}

\* TypedData::to_bytes.  For a BitArray16 the value bits_to_u16 returns is
\* cast to the pointer the slice is read from.
to_bytes(v, wild) ==
    CASE v.tag = "Bool" -> [fault |-> FALSE, bytes |-> IF v.value THEN <<1, 0>> ELSE <<0, 0>>]
      [] v.tag = "BitArray16" -> wild
      [] v.tag \in {"U16", "I16"} -> [fault |-> FALSE, bytes |-> LeBytes(v.value, 2)]
      [] v.tag \in {"U32", "I32", "F32"} -> [fault |-> FALSE, bytes |-> LeBytes(v.value, 4)]
      [] v.tag = "F64" ->
             [fault |-> FALSE, bytes |-> LeBytes(v.value.lo, 4) \o LeBytes(v.value.hi, 4)]
      [] v.tag = "String" -> [fault |-> FALSE, bytes |-> as_bytes(v.value)]

\* impl From<(&[u8], DataType)> for TypedData
TypedDataFrom(bytes, dt) ==
    TypedData(dt.tag,
        CASE dt.tag = "Bool" -> FromLeBytes(SubSeq(bytes, 1, 2), FALSE) % 2 = 1
          [] dt.tag = "BitArray16" -> u16_to_bits(FromLeBytes(SubSeq(bytes, 1, 2), FALSE))
          [] dt.tag = "U16" -> FromLeBytes(SubSeq(bytes, 1, 2), FALSE)
          [] dt.tag = "I16" -> FromLeBytes(SubSeq(bytes, 1, 2), TRUE)
          [] dt.tag \in {"U32", "F32"} -> FromLeBytes(SubSeq(bytes, 1, 4), FALSE)
          [] dt.tag = "I32" -> FromLeBytes(SubSeq(bytes, 1, 4), TRUE)
          [] dt.tag = "F64" -> [hi |-> FromLeBytes(SubSeq(bytes, 5, 8), FALSE),
                                lo |-> FromLeBytes(SubSeq(bytes, 1, 4), FALSE)]
          [] dt.tag = "String" -> from_shift_jis_bytes(bytes, dt.n))

\* to_bytes, then TypedData::from with the type of the value.
EvalRoundTrip ==
    \E v \in TypedValues, wild \in WildReads :
        Eval("round_trip", v,
             IF to_bytes(v, wild).fault
             THEN [result |-> "Fault", value |-> v]
             ELSE [result |-> "Ok",
                   value |-> TypedDataFrom(to_bytes(v, wild).bytes, get_type(v))])

(***************************************************************************)
(* Unit control: remote password lock and unlock.                          *)
(***************************************************************************)
\* The variant of validate_password that accepts every password.
AnyPassword(cpu, len) == TRUE

\* unit_control::validate_password: TRUE when the length is accepted.
validate_password(cpu, len) ==
    IF cpu \in {"Q", "L"} THEN len = 4 ELSE len \in 6..32

\* unit_control::lock_cpu (command 0x1631) and unlock_cpu (0x1630), and
\* what SLMPClient::lock_cpu / unlock_cpu hands to the stream: nothing
\* when the builder returns the error.
lock_cpu(fn, cpu, password) ==
    IF ~validate_password(cpu, Len(password))
    THEN [result |-> "Unsupported", frame |-> <<>>]
    ELSE LET data_packet == ToLe16(Len(password)) \o password
         IN  [result |-> "Sent",
              frame |-> generate_header(Props, 6 + Len(data_packet))
                        \o (IF fn = "lock_cpu" THEN <<49, 22>> ELSE <<48, 22>>)
                        \o <<0, 0>> \o data_packet]

\* Passwords of the lengths around the two admissible ranges.
Passwords == {[i \in 1..n |-> 48 + (i % 10)] : n \in {0, 3, 4, 5, 6, 7, 31, 32, 33}}
                 \cup {<<227, 129, 130, 65>>, <<227, 129, 130, 227, 129, 130>>}

EvalLockCpu ==
    \E fn \in {"lock_cpu", "unlock_cpu"}, cpu \in CPUs, password \in Passwords :
        Eval(fn, [cpu |-> cpu, password |-> password], lock_cpu(fn, cpu, password))

\* SHIFT_JIS.encode over the characters "A", HIRAGANA A and the euro sign:
\* a character Shift-JIS does not have is replaced by its numeric character
\* reference ("&#8364;") and reported in had_errors.
encode(text) ==
    [bytes |-> Flatten([i \in 1..Len(text) |->
                   CASE text[i] = "A" -> <<65>>
                     [] text[i] = "a_hiragana" -> <<130, 160>>
                     [] text[i] = "euro" -> <<38, 35, 56, 51, 54, 52, 59>>]),
     had_errors |-> \E i \in 1..Len(text) : text[i] = "euro"]

\* impl From<(&str, u8)> for PLCString, the conversion behind
\* TypedData::from((&str, u8)): had_errors is dropped and the result is not
\* a Result.
PLCStringFrom(text, size) ==
    LET s == from_shift_jis_bytes(encode(text).bytes, size)
    IN  [result |-> IF s.panic THEN "Panic" ELSE "Ok", value |-> s]

\* Texts of up to three characters, and one of 70.
Texts ==
    LET Chars == {"A", "a_hiragana", "euro"}
    IN  {<<>>} \cup {<<a>> : a \in Chars} \cup {<<a, b>> : a, b \in Chars}
        \cup {<<a, b, c>> : a, b, c \in Chars}
        \cup {[i \in 1..70 |-> "A"]}

EvalPLCStringFrom ==
    \E text \in Texts, size \in {1, 2, 40} :
        Eval("PLCString::from", [text |-> text, size |-> size], PLCStringFrom(text, size))

(***************************************************************************)
(* Bulk access to bit devices.                                             *)
(***************************************************************************)
\* div_ceil
div_ceil(a, b) == (a + b - 1) \div b

\* The variant of the bit packing with the first bit in the low nibble.
PackLowNibbleFirst(data) ==
    LET bit_array(i) == IF i <= Len(data) /\ data[i] THEN 1 ELSE 0
    IN  [device_size_code |-> ToLe16(Len(data) % 65536),
         data_code |-> [k \in 1..div_ceil(Len(data), 2) |->
                           bit_array(2 * k - 1) + bit_array(2 * k) * 16]]

\* The bit branch of write/bulk.rs::construct_frame: the count of bits and
\* the bits packed two to a byte.
BulkWriteBits(data) ==
    LET bit_array(i) == IF i <= Len(data) /\ data[i] THEN 1 ELSE 0
    IN  [device_size_code |-> ToLe16(Len(data) % 65536),
         data_code |-> [k \in 1..div_ceil(Len(data), 2) |->
                           bit_array(2 * k) + bit_array(2 * k - 1) * 16]]

\* The Bool branch of SLMPClient::bulk_read.
BulkReadBits(recv, start_address, device_num) ==
    LET flat(i) == IF i % 2 = 0 THEN (recv[i \div 2 + 1] \div 16) % 2
                   ELSE recv[i \div 2 + 1] % 2
        n == IF device_num < 2 * Len(recv) THEN device_num ELSE 2 * Len(recv)
    IN  [k \in 1..n |-> [address |-> start_address + k - 1, data |-> flat(k - 1) = 1]]

\* The boolean sequences of one to six bits.
BitLists == UNION {[1..n -> BOOLEAN] : n \in 1..MaxBits}

\* A bulk write of bits, and the bulk read of as many bits from the bytes
\* that were written.
EvalBulkBits ==
    \E data \in BitLists, start_address \in {0, 100} :
        Eval("bulk_bits", [data |-> data, start_address |-> start_address],
             [written |-> BulkWriteBits(data),
              read |-> BulkReadBits(BulkWriteBits(data).data_code, start_address,
                                    Len(data))])

\* u16_to_bits, then bits_to_u16, and back to the bits again.
EvalBitsOfWord ==
    \E n \in (0..300) \cup {4660, 32768, 65280, 65535} :
        Eval("u16_to_bits", [n |-> n],
             [bits |-> u16_to_bits(n),
              word |-> bits_to_u16(u16_to_bits(n)),
              again |-> u16_to_bits(bits_to_u16(u16_to_bits(n)))])

\* A random read or a monitor read answered with a success frame whose
\* payload is up to two words shorter or longer than the list asks for,
\* for the short lists within 192 access points.
EvalParseReply ==
    \E devices \in DeviceLists, extra \in -2..2 :
        LET words == Count(devices, LAMBDA d :
                         device_size(d.data_type).size \in {"Bit", "SingleWord"})
                     + Sum(devices, LAMBDA d : device_size(d.data_type).n)
                     + 2 * Count(devices, LAMBDA d :
                               device_size(d.data_type).size = "DoubleWord")
        IN  /\ Len(devices) <= 5
            /\ words <= 192
            /\ words + extra >= 0
            /\ Eval("parse_reply", [devices |-> devices, extra |-> extra],
                    parse(MonitorListFrom(devices), ResponsePayload(words + extra, 0)))

\* impl From<DeviceSize> for u16, for the sizes of the non-string types.
DeviceSizeWords(dt) ==
    CASE device_size(dt).size \in {"Bit", "SingleWord"} -> 1
      [] device_size(dt).size = "DoubleWord" -> 2
      [] device_size(dt).size = "MultiWord" -> device_size(dt).n

\* The device count of read/bulk.rs::construct_frame: device_num as u16
\* times the words of one device.
BulkReadCount(device_num, dt) ==
    ((device_num % 65536) * DeviceSizeWords(dt)) % 65536

\* The word branch of write/bulk.rs::construct_frame: the bytes of the
\* values one after another and the number of words they take; wilds[i] is
\* what to_bytes reads for the i-th value.
BulkWriteWords(data, wilds) ==
    LET bytes(i) == to_bytes(data[i], wilds[i])
        data_code == Flatten([i \in 1..Len(data) |-> bytes(i).bytes])
    IN  [fault |-> \E i \in 1..Len(data) : bytes(i).fault,
         device_size_code |-> ToLe16((Len(data_code) \div 2) % 65536),
         data_code |-> data_code]

\* The word branch of SLMPClient::bulk_read: one result per whole chunk of
\* byte_size bytes.
BulkReadWords(recv, start_address, dt) ==
    LET chunk_size == byte_size(dt)
        skip_address == chunk_size \div 2
    IN  [i \in 1..(Len(recv) \div chunk_size) |->
            [address |-> start_address + skip_address * (i - 1),
             data |-> TypedDataFrom(SubSeq(recv, chunk_size * (i - 1) + 1,
                                           chunk_size * i), dt)]]

\* What a server that stores the written words answers to a read of
\* `count` words from the same start device: two bytes per word, zero where
\* nothing was written.
StoredWords(data_code, count) ==
    [p \in 1..(2 * count) |-> IF p <= Len(data_code) THEN data_code[p] ELSE 0]

\* One or two values of one non-string word type, and what the pointer
\* read of each BitArray16 yields.
WordLists ==
    LET Values(tag) == {v \in TypedValues : v.tag = tag}
        Tags == {"BitArray16", "U16", "I16", "U32", "I32", "F32", "F64"}
    IN  UNION {{<<a>> : a \in Values(t)} \cup {<<a, b>> : a, b \in Values(t)} : t \in Tags}
WildsFor(data) ==
    LET Some == {w \in WildReads : w.fault \/ w.bytes \in {<<1, 0>>, <<0, 1>>}}
        None == {[fault |-> FALSE, bytes |-> <<>>]}
    IN  [1..Len(data) -> IF data[1].tag = "BitArray16" THEN Some ELSE None]

\* A bulk write of words and the bulk read of the first k of them from the
\* server that stored them.
EvalBulkWords ==
    \E data \in WordLists, start_address \in {0, 100} :
        \E wilds \in WildsFor(data), k \in 1..Len(data) :
            LET written == BulkWriteWords(data, wilds)
                count == BulkReadCount(k, get_type(data[1]))
            IN  Eval("bulk_words",
                     [data |-> data, start_address |-> start_address, k |-> k],
                     [fault |-> written.fault,
                      written |-> written,
                      count |-> count,
                      read |-> IF written.fault THEN <<>>
                               ELSE BulkReadWords(
                                        StoredWords(written.data_code, count),
                                        start_address, get_type(data[1]))])

(***************************************************************************)
(* Block access: block_write, block_read and a device memory between them. *)
(***************************************************************************)
\* AccessType's derived Ord: the discriminant (Word = 1, Bit = 2).
AccessKey(access_type) == IF access_type = "Word" THEN 1 ELSE 2

\* SLMPClient::block_write and write/block.rs::construct_frame: the blocks
\* sorted by access type, each with its start device, the count of words
\* and the data bytes; a bit block is padded with false to whole words and
\* packed by bits_to_u8.
BlockWritePacket(data) ==
    LET sorted_data == SortByKey(data, LAMBDA b : AccessKey(b.access_type))
        NoWild == [fault |-> FALSE, bytes |-> <<>>]
        word_code(block) ==
            Flatten([i \in 1..Len(block.data) |-> to_bytes(block.data[i], NoWild).bytes])
        bit_array(block, i) ==
            /\ i <= Len(block.data)
            /\ block.data[i].tag = "Bool"
            /\ block.data[i].value
        bit_code(block) ==
            [k \in 1..(2 * div_ceil(Len(block.data), 16)) |->
                bits_to_u8([j \in 1..8 |-> bit_array(block, 8 * (k - 1) + j)])]
        data_code(block) ==
            IF block.access_type = "Word" THEN word_code(block) ELSE bit_code(block)
    IN  [word_access_points |-> U8(Count(sorted_data, LAMBDA b : b.access_type = "Word")),
         bit_access_points |-> U8(Count(sorted_data, LAMBDA b : b.access_type = "Bit")),
         blocks |-> [i \in 1..Len(sorted_data) |->
                        [start_device |-> sorted_data[i].start_device,
                         device_size_code |->
                             IF sorted_data[i].access_type = "Word"
                             THEN (Len(word_code(sorted_data[i])) \div 2) % 65536
                             ELSE div_ceil(Len(sorted_data[i].data), 16) % 65536,
                         data_code |-> data_code(sorted_data[i])]]]

\* The device memory after a block write: a word or a bit holds what the
\* last block covering it wrote there, and zero otherwise.  The first
\* word_access_points blocks are word blocks, the others bit blocks whose
\* count is in words of 16 bits.
StoredWord(packet, device) ==
    LET covering == {i \in 1..Len(packet.blocks) :
                        /\ i <= packet.word_access_points
                        /\ packet.blocks[i].start_device.device_type = device.device_type
                        /\ device.address >= packet.blocks[i].start_device.address
                        /\ device.address < packet.blocks[i].start_device.address
                                            + packet.blocks[i].device_size_code}
    IN  IF covering = {} THEN 0
        ELSE LET i == CHOOSE i \in covering : \A j \in covering : j <= i
                 off == device.address - packet.blocks[i].start_device.address
             IN  FromLe16(packet.blocks[i].data_code[2 * off + 1],
                          packet.blocks[i].data_code[2 * off + 2])
StoredBit(packet, device) ==
    LET covering == {i \in 1..Len(packet.blocks) :
                        /\ i > packet.word_access_points
                        /\ packet.blocks[i].start_device.device_type = device.device_type
                        /\ device.address >= packet.blocks[i].start_device.address
                        /\ device.address < packet.blocks[i].start_device.address
                                            + 16 * packet.blocks[i].device_size_code}
    IN  IF covering = {} THEN FALSE
        ELSE LET i == CHOOSE i \in covering : \A j \in covering : j <= i
                 off == device.address - packet.blocks[i].start_device.address
             IN  u8_to_bits(packet.blocks[i].data_code[(off \div 8) + 1])[(off % 8) + 1]

\* The count read/block.rs::construct_frame sends for a block.
request_size(block) ==
    IF block.access_type = "Word" THEN block.size ELSE div_ceil(block.size, 8)

\* SLMPClient::block_read up to the request: the blocks sorted by start
\* address, then by access type, and the count sent for each.
BlockReadRequest(device_blocks) ==
    LET sorted_block ==
            SortByKey(SortByKey(device_blocks, LAMBDA b : b.start_device.address),
                      LAMBDA b : AccessKey(b.access_type))
    IN  [sorted_block |-> sorted_block,
         word_access_points |-> U8(Count(sorted_block, LAMBDA b : b.access_type = "Word")),
         bit_access_points |-> U8(Count(sorted_block, LAMBDA b : b.access_type = "Bit")),
         counts |-> [i \in 1..Len(sorted_block) |-> request_size(sorted_block[i]) % 65536]]

\* The payload the device memory answers a block read with: for every
\* block two bytes per word of its count, a word of a bit block being 16
\* consecutive bits from its start, the first in the lowest bit.
BlockReadReply(request, packet) ==
    LET start(i) == request.sorted_block[i].start_device
        word(i, w) ==
            IF i <= request.word_access_points
            THEN ToLe16(StoredWord(packet, [start(i) EXCEPT !.address = @ + w]))
            ELSE <<bits_to_u8([j \in 1..8 |->
                       StoredBit(packet, [start(i) EXCEPT !.address = @ + 16 * w + j - 1])]),
                   bits_to_u8([j \in 1..8 |->
                       StoredBit(packet, [start(i) EXCEPT !.address = @ + 16 * w + 8 + j - 1])])>>
    IN  Flatten([i \in 1..Len(request.sorted_block) |->
                    Flatten([w \in 1..request.counts[i] |-> word(i, w - 1)])])

\* SLMPClient::block_read from the payload on: every block takes two bytes
\* per word, or one byte per eight bits, from where the block before it
\* ended; a slice beyond the payload panics.
BlockReadParse(sorted_block, recv) ==
    LET n == Len(sorted_block)
        block_bytelen(i) ==
            IF sorted_block[i].access_type = "Word" THEN 2 * sorted_block[i].size
            ELSE div_ceil(sorted_block[i].size, 8)
        lens == SubSeq([i \in 1..n |-> block_bytelen(i)], 1, n)
        read_addr(i) == Sum(SubSeq(lens, 1, i - 1), LAMBDA l : l)
        blocked_data(i) == SubSeq(recv, read_addr(i) + 1, read_addr(i) + lens[i])
        results(i) ==
            IF sorted_block[i].access_type = "Word"
            THEN [k \in 1..sorted_block[i].size |->
                     [device |-> [sorted_block[i].start_device EXCEPT !.address = @ + k - 1],
                      data |-> TypedDataFrom(SubSeq(blocked_data(i), 2 * k - 1, 2 * k), U16)]]
            ELSE [k \in 1..sorted_block[i].size |->
                     [device |-> [sorted_block[i].start_device EXCEPT !.address = @ + k - 1],
                      data |-> TypedData("Bool",
                                   u8_to_bits(blocked_data(i)[((k - 1) \div 8) + 1])[((k - 1) % 8) + 1])]]
    IN  IF Sum(lens, LAMBDA l : l) > Len(recv)
        THEN [result |-> "Panic", values |-> <<>>]
        ELSE [result |-> "Ok", values |-> Flatten([i \in 1..n |-> results(i)])]

\* Two word blocks of data registers and four bit blocks of internal
\* relays, a word of 16 bits or more apart, and the lists of one to three
\* of them.
BlockPool ==
    LET Word(address, values) ==
            [access_type |-> "Word",
             start_device |-> [device_type |-> "D", address |-> address],
             data |-> [i \in 1..Len(values) |-> TypedData("U16", values[i])]]
        Bit(address, values) ==
            [access_type |-> "Bit",
             start_device |-> [device_type |-> "M", address |-> address],
             data |-> [i \in 1..Len(values) |-> TypedData("Bool", values[i])]]
    IN  {Word(10, <<10, 20>>), Word(20, <<4660>>),
         Bit(0, <<TRUE, FALSE, TRUE>>), Bit(16, <<TRUE>>),
         Bit(32, <<FALSE, TRUE, FALSE, FALSE, FALSE, FALSE, FALSE, TRUE, TRUE>>),
         Bit(64, <<FALSE, TRUE>>)}
BlockLists ==
    LET Distinct(l) == \A i, j \in 1..Len(l) : l[i] = l[j] => i = j
    IN  {l \in UNION {[1..n -> BlockPool] : n \in 1..3} : Distinct(l)}

\* A block write, then the block read of the same blocks answered from the
\* memory the write left.
EvalBlockAccess ==
    \E data \in BlockLists :
        LET packet == BlockWritePacket(data)
            request == BlockReadRequest(
                           [i \in 1..Len(data) |->
                               [access_type |-> data[i].access_type,
                                start_device |-> data[i].start_device,
                                size |-> Len(data[i].data)]])
        IN  Eval("block_access", data,
                 [packet |-> packet,
                  counts |-> request.counts,
                  read |-> BlockReadParse(request.sorted_block,
                                          BlockReadReply(request, packet))])

EvalValidateResponse ==
    \E data \in Buffers : Eval("validate_response", data, validate_response(data))

NextCodec ==
    \/ EvalValidateResponse
    \/ EvalRandomRead
    \/ EvalMonitorRegister
    \/ EvalRandomReadFrame
    \/ EvalParse
    \/ EvalRoundTrip
    \/ EvalLockCpu
    \/ EvalPLCStringFrom
    \/ EvalBulkBits
    \/ EvalBitsOfWord
    \/ EvalParseReply
    \/ EvalBulkWords
    \/ EvalBlockAccess

CodecSpec == Init /\ [][NextCodec]_vars

(***************************************************************************)
(* One stream over several exchanges: the requests written to it, the      *)
(* replies the server has put on it and the results request_response has   *)
(* returned.  The exchanges of a session are serialised by the stream      *)
(* mutex, so there is one position.                                        *)
(***************************************************************************)
MaxExchanges == 4

\* The success frame the server sends for request id: the access route of
\* the session, and the payload that names the request.
ReplyTo(id) ==
    ResponseFrame([code |-> 212, serial |-> Props.serial_id, blank |-> 0,
                   network |-> Props.network_id, pc |-> Props.pc_id,
                   io |-> Props.io_id, area |-> Props.area_id,
                   data_len |-> 4, end_code |-> 0, payload |-> 0])
    \o ToLe16(id)

\* SLMPClient::connect: a stream with nothing written and nothing to read.
WireOpen ==
    /\ fx.fn = NoCall.fn
    /\ fx' = [fn |-> "request_response", in |-> <<>>,
              out |-> [at |-> "idle", sent |-> 0, unanswered |-> <<>>,
                       inbox |-> <<>>, results |-> <<>>]]
    /\ UNCHANGED <<mgrVars, pollVars, sessVars, callVars, closedRet, tickLimit,
                   timed, now, cancelAt>>

\* The state of the stream moves on; nothing else does.
WireStep(out) ==
    /\ fx.fn = "request_response"
    /\ fx' = [fx EXCEPT !.out = out]
    /\ UNCHANGED <<mgrVars, pollVars, sessVars, callVars, closedRet, tickLimit,
                   timed, now, cancelAt>>

\* request_response: stream.write_all(msg) of the next request.
WireSend ==
    /\ fx.fn = "request_response"
    /\ fx.out.at = "idle"
    /\ fx.out.sent < MaxExchanges
    /\ WireStep([fx.out EXCEPT !.at = "reading", !.sent = @ + 1,
                               !.unanswered = Append(@, fx.out.sent + 1)])

\* The server answers the oldest request it has not answered yet; the
\* frame waits on the stream until it is read.
WireAnswer ==
    /\ fx.fn = "request_response"
    /\ fx.out.unanswered # <<>>
    /\ WireStep([fx.out EXCEPT !.unanswered = Tail(@),
                               !.inbox = @ \o ReplyTo(Head(fx.out.unanswered))])

\* request_response: stream.read(&mut self.buffer) returns the bytes that
\* wait on the stream, validate_response checks them and, on Ok, the bytes
\* from the 15th on are returned.
WireRead ==
    /\ fx.fn = "request_response"
    /\ fx.out.at = "reading"
    /\ fx.out.inbox # <<>>
    /\ LET data == fx.out.inbox
           res == validate_response(data)
       IN  WireStep([fx.out EXCEPT
               !.at = "idle",
               !.inbox = <<>>,
               !.results = Append(@,
                   [request |-> fx.out.sent,
                    result |-> res,
                    payload |-> IF res = "Ok" THEN SubSeq(data, 16, Len(data))
                                ELSE <<>>])])

\* request_response: nothing arrives within recv_timeout; the error is
\* returned and the stream stays as it is.
WireTimeout ==
    /\ fx.fn = "request_response"
    /\ fx.out.at = "reading"
    /\ fx.out.inbox = <<>>
    /\ WireStep([fx.out EXCEPT
           !.at = "idle",
           !.results = Append(@, [request |-> fx.out.sent, result |-> "TimedOut",
                                  payload |-> <<>>])])

NextWire ==
    \/ WireOpen
    \/ WireSend
    \/ WireAnswer
    \/ WireRead
    \/ WireTimeout

WireSpec == Init /\ [][NextWire]_vars

(***************************************************************************)
(* Properties.                                                             *)
(***************************************************************************)
\* The processes that hold the stream of session s for an exchange.
Exchanging(s) ==
    {Caller(c) : c \in {d \in Callers :
                          pc[d] \in {"x_write", "x_read"} /\ op[d].sess = s}}
    \cup {Poller(w) : w \in {v \in Workers :
                               v = s /\ ppc[v] \in {"write", "read"}}}

\* C1: on one session, clones included, at most one request is in flight:
\* between the write of a request and the end of the read of its reply no
\* other task writes or reads on that session.
C1_OneRequestInFlight ==
    \A s \in Sessions : Cardinality(Exchanging(s)) <= 1

\* A task waits for the stream while a clone's request is in flight.
C1_Witness ==
    \E c, d \in Callers :
        /\ c # d
        /\ op[c].kind = "command" /\ op[d].kind = "command"
        /\ pc[c] = "x_read" /\ pc[d] = "x_wait"
        /\ stream[0] = "open" /\ wire[0] > 0

\* C2: a closure run by operate_worker and the poller's tick of the same
\* worker never use the worker's stream at the same time.
C2_ClosureAndTickExclusive ==
    \A w \in Workers :
        ~ /\ ppc[w] \in {"write", "read"}
          /\ \E c \in Callers : /\ op[c].kind = "operate"
                                /\ op[c].sess = w
                                /\ pc[c] \in {"x_write", "x_read"}

\* The poller's tick waits for the stream that a closure, working on a clone
\* of the client, is using.
C2_Witness ==
    \E w \in Workers, c \in Callers :
        /\ ppc[w] = "lock_stream"
        /\ op[c].kind = "operate" /\ op[c].sess = w /\ ~ op[c].locked
        /\ pc[c] = "x_read"

\* C3: once disconnect has returned Ok(true) for a worker, its poller has
\* terminated and its session is closed; the session of a worker is never
\* closed before its poller has terminated.
C3_DisconnectSynchronous ==
    \A w \in Workers :
        /\ w \in closedRet => ppc[w] \in Terminated /\ stream[w] = "none"
        /\ (w \in workers /\ stream[w] = "none") => ppc[w] \in Terminated

\* disconnect has returned for a worker whose poller had exchanged and
\* called back.
C3_Witness ==
    \E w \in closedRet : ticks[w] > 0 /\ lastTick[w].cb = 1

\* C4: a poller whose token is cancelled and that is at its select! neither
\* starts a tick nor applies a target update.
C4_CancelWins ==
    [][\A w \in Workers :
          (cancel_token[w] /\ ppc[w] = "select") =>
             /\ ppc'[w] \in {"select", "done"}
             /\ ticks'[w] = ticks[w]
             /\ monitor_target'[w] = monitor_target[w]]_vars

\* C5: a cancelled poller has terminated one tick period after the
\* cancellation.
C5_TerminatesWithinOneTick ==
    \A w \in Workers :
        cancelAt[w] # Never =>
           IF ppc[w] \in Terminated
           THEN termAt[w] - cancelAt[w] <= MINUMUM_POLLING_PERIOD_MS
           ELSE now - cancelAt[w] <= MINUMUM_POLLING_PERIOD_MS

\* Ticks between two consecutive requests of an interval, as documented.
PeriodInTicks(b) ==
    CASE b = "Fast" -> 1
      [] b = "Meduim" -> 5
      [] b = "Slow" -> 10
      [] b = "Watch" -> LOOP_PERIOD_MS \div MINUMUM_POLLING_PERIOD_MS

\* C6: over the whole life of a poller, two consecutive requests of a
\* bucket are 1 (Fast), 5 (Medium), 10 (Slow) and 50 (Watch) ticks apart.
C6_ExactPeriods ==
    \A w \in Workers, b \in PollingInterval :
        gap[w][b] \in {Never, PeriodInTicks(b)}

\* C7: in a tick the callback is invoked exactly once if the request is not
\* empty and the read is Ok, and not at all otherwise; a poller ends by
\* break only when cancelled, so neither a failed read nor a failed callback
\* ends it.
C7_CallbackOncePerGoodTick ==
    \A w \in Workers :
        /\ lastTick[w].cb =
              (IF lastTick[w].req # <<>> /\ lastTick[w].res = "Ok"
               THEN 1 ELSE 0)
        /\ ppc[w] = "dead" => lastTick[w].res = "Panic"
        /\ ppc[w] = "done" => cancel_token[w]

\* After a failed read, without a callback, the poller is in its next tick.
C7_Witness ==
    \E w \in Workers :
        /\ lastTick[w].res \in {"TimedOut", "InvalidData", "IoError"}
        /\ lastTick[w].cb = 0
        /\ ppc[w] = "lock_client"
        /\ ~ cancel_token[w]

\* clear is in progress for caller c.
InClear(c) == op[c].kind = "clear" /\ pc[c] # "idle"

\* C8: a call of clear returns, and when it returns the map is empty and
\* every worker it drained has a terminated poller and a closed session.
C8_ClearReturns ==
    /\ \A c \in Callers : InClear(c) ~> ~ InClear(c)
    /\ [][\A c \in Callers :
            (InClear(c) /\ ~ InClear(c)') =>
               /\ connections' = <<>>
               /\ \A w \in op[c].drained :
                     ppc'[w] \in Terminated /\ stream'[w] = "none"]_vars

\* clear has returned after draining two workers whose pollers had ticked.
C8_Witness ==
    /\ \E c \in Callers : pc[c] = "idle" /\ ret[c] = "Ok"
    /\ connections = <<>>
    /\ closedRet = {}
    /\ workers = Workers
    /\ \A w \in workers :
          stream[w] = "none" /\ ppc[w] \in Terminated /\ ticks[w] > 0

\* C9: a list queued by register_monitor_targets for a worker that is not
\* cancelled is eventually applied as its partition into the four buckets.
C9_UpdatesApplied ==
    \A w \in Workers, t \in TargetLists :
        (chan[w] # <<>> /\ Head(chan[w]) = t /\ ~ cancel_token[w])
           ~> (\/ cancel_token[w]
               \/ monitor_target[w] =
                     [fast |-> Bucket(t, "Fast"), medium |-> Bucket(t, "Meduim"),
                      slow |-> Bucket(t, "Slow"), watch |-> Bucket(t, "Watch")])

\* C10: an exchanging operation that finds no stream on its session returns
\* NotConnected, writes nothing and leaves the session disconnected.
C10_NotConnected ==
    [][\A c \in Callers :
          (pc[c] = "x_wait" /\ pc'[c] # "x_wait"
             /\ stream[op[c].sess] = "none") =>
             /\ ret'[c] = "NotConnected"
             /\ wire' = wire
             /\ stream' = stream]_vars

\* C11: bulk_write and random_write of an empty slice return Ok(()) without
\* an exchange, connected or not: no request is written and the command
\* never reaches request_response.
C11_EmptyWriteSendsNothing ==
    /\ [][\A c \in Callers :
            (pc[c] = "w_plan" /\ pc'[c] # "w_plan" /\ op[c].data = <<>>) =>
               (pc'[c] = "idle" /\ ret'[c] = "Ok"
                /\ wire' = wire /\ stream' = stream)]_vars
    /\ [](\A c \in Callers :
            (op[c].fn \in WriteFns /\ op[c].data = <<>>) =>
               pc[c] \in {"w_plan", "idle"})

\* An empty write is the only call so far and has returned Ok on a session
\* that was never connected.
C11_Witness ==
    /\ calls = 1
    /\ \E c \in Callers : pc[c] = "idle" /\ ret[c] = "Ok"
    /\ stream[0] = "none" /\ wire[0] = 0

\* What the ordered checks of a response report.
FirstFailingCheck(data) ==
    LET n == Len(data)
        has(i) == i < n
        le(i) == FromLe16(At(data, i), At(data, i + 1))
    IN
    CASE n < 13 -> "Received Invalid Length Data"
      [] n >= 13 /\ le(11) # n - 13 -> "Received Invalid Data Frame"
      [] n >= 15 /\ le(11) = n - 13 /\ le(13) # 0 -> EndCodeError(le(13))
      [] n >= 15 /\ le(11) = n - 13 /\ le(13) = 0 /\ le(0) # 212 ->
            "Received Invalid Response Data"
      [] n >= 15 /\ le(11) = n - 13 /\ le(13) = 0 /\ le(0) = 212 ->
            IF le(2) # Props.serial_id THEN "Received Invalid Serial ID"
            ELSE IF le(4) # 0 THEN "Received Invalid Blank Code"
            ELSE IF At(data, 6) # Props.network_id THEN "Received Invalid Network ID"
            ELSE IF At(data, 7) # Props.pc_id THEN "Received Invalid PC ID"
            ELSE IF le(8) # Props.io_id THEN "Received Invalid IO ID"
            ELSE IF At(data, 10) # Props.area_id THEN "Received Invalid Area ID"
            ELSE "Ok"
      [] OTHER -> "Error"

\* C12: for every response buffer validate_response returns Ok or the error
\* of the first failing check, in the order length, DataLen, EndCode,
\* response code, SerialID, blank, NetworkID, PcID, IoID, AreaID; a buffer
\* without the two EndCode bytes is an error, whichever.
C12_ChecksInOrder ==
    fx.fn = "validate_response" =>
       /\ fx.out # "Panic"
       /\ FirstFailingCheck(fx.in) # "Error" => fx.out = FirstFailingCheck(fx.in)

\* The access points a device list really asks for: one per bit or
\* single-word item, n per MultiWord(n) item, and one per double-word item.
TrueSingle(devices) ==
    Count(devices, LAMBDA d : device_size(d.data_type).size \in {"Bit", "SingleWord"})
    + Sum(devices, LAMBDA d : device_size(d.data_type).n)
TrueDouble(devices) ==
    Count(devices, LAMBDA d : device_size(d.data_type).size = "DoubleWord")

\* C13: a device list that asks for more than 192 access points is rejected
\* with a validation error before any packet is built, and the counters of
\* every request that is built are the true counts, at most 192 in total.
C13_AccessPointLimit ==
    fx.fn \in {"random_read", "monitor_register"} =>
        /\ TrueSingle(fx.in.devices) + TrueDouble(fx.in.devices) > 192
              => fx.out.result = "Validation"
        /\ fx.out.result = "Sent" =>
              /\ fx.out.counts = <<TrueSingle(fx.in.devices), TrueDouble(fx.in.devices)>>
              /\ fx.out.counts[1] + fx.out.counts[2] <= 192

\* The items of a device list of the given sizes.
ItemsOf(devices, sizes) ==
    {i \in 1..Len(devices) : device_size(devices[i].data_type).size \in sizes}

\* C16: a random-read or monitor-register request carries the true counts
\* n_sw and n_dw, n_sw + n_dw serialised addresses, the single-word and bit
\* items first, then each MultiWord(n) item as n consecutive addresses, and
\* the double-word items last.
C16_CountsMatchAddresses ==
    (fx.fn \in {"random_read", "monitor_register"} /\ fx.out.result = "Sent") =>
        LET devices == fx.in.devices
            addresses == fx.out.addresses
            n_sw == TrueSingle(devices)
            n_dw == TrueDouble(devices)
            first == Cardinality(ItemsOf(devices, {"Bit", "SingleWord"}))
        IN  /\ fx.out.counts = <<n_sw, n_dw>>
            /\ Len(addresses) = n_sw + n_dw
            /\ {addresses[p] : p \in 1..first} =
                   {devices[i].device.address : i \in ItemsOf(devices, {"Bit", "SingleWord"})}
            /\ {addresses[p] : p \in n_sw + 1..n_sw + n_dw} =
                   {devices[i].device.address : i \in ItemsOf(devices, {"DoubleWord"})}
            /\ \A i \in ItemsOf(devices, {"MultiWord"}) :
                   \E p \in first + 1..n_sw :
                       \A k \in 1..device_size(devices[i].data_type).n :
                           /\ p + k - 1 <= n_sw
                           /\ addresses[p + k - 1] = devices[i].device.address + k - 1

\* C14: in every request frame a builder produces, the 16-bit little-endian
\* length field at bytes 11..12 of the header is the length of the frame
\* minus the 13 bytes that precede the CPU timer.
C14_DataLenMatchesFrame ==
    (fx.fn = "random_read_frame" /\ fx.out.result = "Built") =>
        FromLe16(At(fx.out.frame, 11), At(fx.out.frame, 12)) = Len(fx.out.frame) - 13

\* The bytes of a response that belong to item i of a device list: the
\* slots are in request order, the items sorted by type class, then type,
\* then address, then position in the list.
SlotBytes(dt) ==
    CASE device_size(dt).size \in {"Bit", "SingleWord"} -> 2
      [] device_size(dt).size = "MultiWord" -> 2 * device_size(dt).n
      [] device_size(dt).size = "DoubleWord" -> 4
Earlier(devices, j, i) ==
    LET kj == <<TypeKey(devices[j].data_type), devices[j].device.address, j>>
        ki == <<TypeKey(devices[i].data_type), devices[i].device.address, i>>
    IN  \/ kj[1] < ki[1]
        \/ kj[1] = ki[1] /\ kj[2] < ki[2]
        \/ kj[1] = ki[1] /\ kj[2] = ki[2] /\ kj[3] < ki[3]
SlotOf(devices, i) ==
    LET start == Cardinality(UNION {{<<j, b>> : b \in 1..SlotBytes(devices[j].data_type)} :
                                       j \in {j \in 1..Len(devices) : Earlier(devices, j, i)}})
    IN  [p \in 1..SlotBytes(devices[i].data_type) |-> (start + p - 1) % 251]

\* C15: parsing the payload of a device list returns one result per item,
\* in the caller's order, each with the item's device, its data type and
\* the bytes the payload holds for it.
C15_ParseRestoresCallerOrder ==
    fx.fn = "parse" =>
        /\ fx.out.result = "Ok"
        /\ Len(fx.out.values) = Len(fx.in.devices)
        /\ \A i \in 1..Len(fx.in.devices) :
               fx.out.values[i] = [device |-> fx.in.devices[i].device,
                                   data_type |-> fx.in.devices[i].data_type,
                                   bytes |-> SlotOf(fx.in.devices, i)]

\* PartialEq of TypedData: the same variant and equal values, two strings
\* being equal when their texts are.
SameTypedData(a, b) ==
    /\ a.tag = b.tag
    /\ IF a.tag = "String" THEN as_str(a.value) = as_str(b.value) ELSE a.value = b.value

\* C17: converting a typed value to bytes and back with its own type gives
\* the value again.
C17_BytesRoundTrip ==
    fx.fn = "round_trip" => (fx.out.result = "Ok" /\ SameTypedData(fx.out.value, fx.in))

\* C18: lock_cpu and unlock_cpu return an error and send nothing when the
\* password is not 4 bytes long on a Q or L CPU or not 6 to 32 bytes long on
\* an R CPU; otherwise the payload of the frame they send is the 16-bit
\* length of the password followed by its bytes.
C18_PasswordLength ==
    fx.fn \in {"lock_cpu", "unlock_cpu"} =>
        LET len == Len(fx.in.password)
            admissible == \/ fx.in.cpu \in {"Q", "L"} /\ len = 4
                          \/ fx.in.cpu = "R" /\ 6 <= len /\ len <= 32
        IN  IF admissible
            THEN /\ fx.out.result = "Sent"
                 /\ SubSeq(fx.out.frame, 20, Len(fx.out.frame)) =
                        <<len % 256, len \div 256>> \o fx.in.password
            ELSE /\ fx.out.result # "Sent"
                 /\ fx.out.frame = <<>>

C18_Witness ==
    /\ fx.fn = "lock_cpu"
    /\ fx.in.cpu = "R"
    /\ Len(fx.in.password) = 33
    /\ fx.out.result = "Unsupported"

\* The length of the Shift-JIS encoding of a text, and whether Shift-JIS
\* has all its characters.
ShiftJisLen(text) ==
    Cardinality({i \in 1..Len(text) : text[i] = "A"})
    + 2 * Cardinality({i \in 1..Len(text) : text[i] = "a_hiragana"})
Representable(text) == \A i \in 1..Len(text) : text[i] # "euro"

\* C19: building a string of device size n from a text fails with an error
\* when the Shift-JIS encoding of the text is longer than 2n bytes or the
\* text has a character Shift-JIS cannot represent.
C19_StringRejected ==
    (/\ fx.fn = "PLCString::from"
     /\ \/ ~Representable(fx.in.text)
        \/ ShiftJisLen(fx.in.text) > 2 * fx.in.size)
    => fx.out.result = "Error"

\* C20: a bulk write of n bits carries the count n and the bits two to a
\* byte, the first of each pair in the high nibble and an odd tail padded
\* with a zero low nibble, and the bulk read of n bits from those bytes
\* gives the same n booleans at the addresses start, ..., start + n - 1.
C20_BitsRoundTrip ==
    fx.fn = "bulk_bits" =>
        LET data == fx.in.data
            n == Len(data)
            code == fx.out.written.data_code
        IN  /\ fx.out.written.device_size_code = <<n % 256, n \div 256>>
            /\ Len(code) = (n + 1) \div 2
            /\ \A i \in 1..n :
                   IF i % 2 = 1 THEN (code[(i + 1) \div 2] \div 16 = 1) = data[i]
                   ELSE (code[i \div 2] % 16 = 1) = data[i]
            /\ n % 2 = 1 => code[Len(code)] % 16 = 0
            /\ Len(fx.out.read) = n
            /\ \A i \in 1..n :
                   fx.out.read[i] = [address |-> fx.in.start_address + i - 1,
                                     data |-> data[i]]

C20_Witness ==
    /\ fx.fn = "bulk_bits"
    /\ fx.in.data = <<TRUE, FALSE, TRUE>>
    /\ fx.out.written.data_code = <<16, 16>>
    /\ Len(fx.out.read) = 3

\* C30: u16_to_bits and bits_to_u16 are inverse to each other, element 0 of
\* the array being the least significant bit of the word.
C30_BitHelpersInverse ==
    fx.fn = "u16_to_bits" =>
        /\ fx.out.bits[1] = (fx.in.n % 2 = 1)
        /\ fx.out.word = fx.in.n
        /\ \A i \in 1..16 : fx.out.again[i] = fx.out.bits[i]

\* C28: validating a received buffer of any length ends in Ok or in an
\* error without reading outside the buffer, and Ok is returned only for a
\* buffer that holds the 15 bytes in front of the payload.
C28_NoReadOutsideBuffer ==
    fx.fn = "validate_response" =>
        /\ fx.out # "Panic"
        /\ Len(fx.in) \in {13, 14} => fx.out \notin {"Ok", "Panic"}
        /\ fx.out = "Ok" => Len(fx.in) >= 15

\* C27: whatever payload a success frame carries, shorter or longer than
\* the request implies, reading it ends in Ok or in an error and never in a
\* panic, so that the poller task ends only by cancellation.
C27_NoPanicOnAnyPayload ==
    fx.fn = "parse_reply" => fx.out.result \in {"Ok", "Err"}


\* C21: a bulk read of k devices of a word type asks for k times the words
\* of one device and returns k results at addresses that advance by the
\* words of one device, equal to the first k values written there by a bulk
\* write.
C21_BulkWordsRoundTrip ==
    fx.fn = "bulk_words" =>
        LET words == byte_size(get_type(fx.in.data[1])) \div 2
        IN  /\ ~fx.out.fault
            /\ fx.out.count = fx.in.k * words
            /\ Len(fx.out.read) = fx.in.k
            /\ \A i \in 1..fx.in.k :
                   /\ fx.out.read[i].address = fx.in.start_address + (i - 1) * words
                   /\ SameTypedData(fx.out.read[i].data, fx.in.data[i])

\* A bulk write of two double-word values read back whole.
C21_Witness ==
    /\ fx.fn = "bulk_words"
    /\ fx.in.data[1].tag = "U32"
    /\ fx.in.k = 2
    /\ fx.out.count = 4
    /\ Len(fx.out.read) = 2
    /\ fx.out.read[2].address = fx.in.start_address + 2


\* The values of the written blocks in the order of the read: word blocks
\* before bit blocks, by ascending start address, each block's values at
\* consecutive addresses.
WrittenInReadOrder(data) ==
    LET ordered == SortByKey(data, LAMBDA b :
                       AccessKey(b.access_type) * 65536 + b.start_device.address)
    IN  Flatten([i \in 1..Len(ordered) |->
                    [k \in 1..Len(ordered[i].data) |->
                        [device |-> [ordered[i].start_device EXCEPT !.address = @ + k - 1],
                         data |-> ordered[i].data[k]]]])

\* C23: a block write followed by the block read of the same blocks from a
\* memory that kept what was written returns, for every block in sorted
\* order, the values written at consecutive addresses, also with two or
\* more bit blocks and with a bit block of more than 8 bits.
C23_BlockRoundTrip ==
    fx.fn = "block_access" =>
        /\ fx.out.read.result = "Ok"
        /\ fx.out.read.values = WrittenInReadOrder(fx.in)


\* The poller of w is inside a tick, and the step ends a tick of w.
InTick(w) == ppc[w] \in {"lock_client", "lock_stream", "write", "read", "callback"}
TickEnds(w) == ppc'[w] = "select" /\ (InTick(w) \/ ticks'[w] # ticks[w])

\* C22: cnt stays within 0..49; the end of every tick, with or without a
\* read and whatever the read returned, adds one to it, or sets it to 1
\* when it was 49; no other step, a target update included, changes it; it
\* is 0 only until the first tick has ended.
C22_CounterCycle ==
    /\ [](\A w \in Workers :
              /\ cnt[w] \in 0..LOOP_CNT_MAX
              /\ cnt[w] = 0 =>
                     \/ ticks[w] = 0
                     \/ ticks[w] = 1 /\ (InTick(w) \/ ppc[w] = "dead"))
    /\ [][\A w \in Workers :
              cnt'[w] = IF TickEnds(w)
                        THEN (IF cnt[w] = 49 THEN 1 ELSE cnt[w] + 1)
                        ELSE cnt[w]]_vars

\* The counter is back at 1 after the fiftieth tick, which failed to read,
\* with targets registered.
C22_Witness ==
    \E w \in Workers :
        /\ ticks[w] = 50
        /\ cnt[w] = 1
        /\ ppc[w] = "select"
        /\ lastTick[w].res \in {"TimedOut", "InvalidData", "IoError"}
        /\ monitor_target[w] # NewMonitorDevices


\* The poller task of w has been spawned and has not ended.
Running(w) == w \in workers /\ ppc[w] \notin Terminated

\* Worker w is held by a call that is closing it, or is about to close it
\* with the map mutex held, or has spawned it and is about to insert it.
BeingClosed(w) ==
    \E c \in Callers :
        /\ pc[c] \in {"close_join", "close_client", "close_stream"}
        /\ w \in {op[c].sess} \cup op[c].todo
BeingInserted(w) ==
    \E c \in Callers : pc[c] = "insert_lock" /\ op[c].sess = w

\* C24: an endpoint never has two running pollers, and a running poller
\* is that of the worker stored in the map for its endpoint, of a worker
\* being closed, or of one connect is about to insert.
C24_OnePollerPerEndpoint ==
    \A e \in Endpoints :
        LET running == {w \in Workers : Running(w) /\ wEndpoint[w] = e}
        IN  /\ Cardinality(running) <= 1
            /\ \A w \in running :
                   \/ e \in DOMAIN connections /\ connections[e] = w
                   \/ BeingClosed(w)
                   \/ BeingInserted(w)


\* C25: every call of the manager returns, also when callbacks and
\* closures holding the client's mutex call the manager while another task
\* is inside disconnect or clear.
C25_EveryCallReturns ==
    \A c \in Callers : (pc[c] # "idle") ~> (pc[c] = "idle")


\* Caller c returns from connect with the error of client.connect().
ConnectFails(c) ==
    /\ op[c].kind = "connect"
    /\ pc[c] = "dial"
    /\ pc'[c] = "idle"
    /\ ret'[c] = "ConnectFailed"

\* C29: when connect returns the error of the session that cannot be
\* opened, it has spawned no poller and inserted nothing, the endpoint has
\* no entry, and the worker its disconnect found for the endpoint is closed
\* and out of the map.
C29_FailedConnectLeavesNothing ==
    [][\A c \in Callers :
          ConnectFails(c) =>
             /\ workers' = workers
             /\ ppc' = ppc
             /\ connections' = connections
             /\ op[c].ep \notin DOMAIN connections'
             /\ op[c].sess # 0 =>
                   /\ ppc'[op[c].sess] \in Terminated
                   /\ stream'[op[c].sess] = "none"
                   /\ op[c].sess \notin Range(connections')]_vars


\* C26: the payload a successful exchange returns is the server's reply to
\* the request written in that exchange, whatever exchanges came before
\* it on the stream.
C26_ReplyOfThisRequest ==
    fx.fn = "request_response" =>
        \A i \in 1..Len(fx.out.results) :
            fx.out.results[i].result = "Ok" =>
                fx.out.results[i].payload = ToLe16(fx.out.results[i].request)

====
